---- MODULE Spec2Model ----
(***************************************************************************)
(* goprotowrap: the Wrapper object of package wrapper (wrapper.go) and its *)
(* generation scheduler Wrapper.Generate, which hands the needed packages  *)
(* to a pool of worker goroutines over an unbuffered work channel and      *)
(* collects their errors on a buffered result channel.                     *)
(*                                                                         *)
(* File names are the numbers 1..MaxFiles; the full path of a file is its  *)
(* number and the empty path "" is 0.  ComputedPackage strings are the     *)
(* numbers 1..MaxKey, ordered as sort.Strings orders the strings.          *)
(***************************************************************************)
EXTENDS Integers, Sequences, FiniteSets, TLC

\* Bounds of the model.
MaxFiles == 3
MaxKey == 3
MaxParallelism == 2
MaxImports == 3
MaxChecks == 2

Files == 1 .. MaxFiles
Keys == 1 .. MaxKey
EmptyPath == 0

\* error values: nil, the two configuration errors of Wrapper.Generate, and
\* the error a worker builds for package pkg.
Nil == [kind |-> "nil", pkg |-> 0]
ErrNotInit == [kind |-> "Init() must be called before Generate()", pkg |-> 0]
ErrParallelism == [kind |-> "parallelism cannot be < 1", pkg |-> 0]
ErrGenerating(k) == [kind |-> "error generating package", pkg |-> k]

VARIABLES
    Parallelism,    \* Wrapper.Parallelism
    ProtoFiles,     \* Wrapper.ProtoFiles: the files named on the command line
    NoExpand,       \* Wrapper.NoExpand
    PrintOnly,      \* Wrapper.PrintOnly
    allProtos,      \* Wrapper.allProtos
    infos,          \* Wrapper.infos: file name -> FileInfo
    packages,       \* Wrapper.packages: key -> PackageInfo of the needed packages
    allPackages,    \* Wrapper.allPackages: key -> PackageInfo
    initCalled,     \* Wrapper.initCalled
    mainPc,         \* position of the goroutine that calls Init and Generate
    order,          \* Generate: the slice returned by packagesInOrder()
    idx,            \* Generate: position of the submission loop in order (1-based)
    err,            \* Generate: var err error
    retErr,         \* value returned by Generate (Nil while it has not returned)
    nWorkers,       \* Generate: number of worker goroutines started
    pkgChanOpen,    \* Generate: pkgChan exists and is not closed
    errChan,        \* Generate: contents of the buffered channel errChan
    errCap,         \* Generate: capacity of errChan
    wg,             \* Generate: counter of the sync.WaitGroup
    wpc,            \* worker -> "none" | "recv" | "generating" | "send" | "exited"
    wpkg,           \* worker -> key of the package in hand (0: none)
    calls,          \* history: the generator invocations, in the order they were made
    failed,         \* history: keys of the packages whose generator call failed
    completed,      \* history: keys of the packages whose generator call returned
    firstSent,      \* history: first error placed on errChan (Nil: none yet)
    nRecv,          \* history: number of errors the submission loop received
    late,           \* history: keys of the packages whose call returned after that
    fileDeps,       \* environment: file name -> names of the files it imports
    index,          \* key -> PackageInfo.index
    lowlink,        \* key -> PackageInfo.lowlink
    onStack,        \* key -> PackageInfo.onStack
    sccs,           \* Wrapper.sccs
    checkErr,       \* value returned by the last CheckCycles call
    explanation,    \* the showComponent texts joined into that error
    nChecks,        \* number of CheckCycles calls made
    firstCheck,     \* history: sccs and error of the first CheckCycles call
    exitCode,       \* exit code of the protowrap process (-1 while it runs)
    exitCause,      \* history: the statement of main that ended the process
    locInfos,       \* file name (a string) -> FileInfo with its string fields
    locWarnings,    \* names of the files ComputeGoLocations warned about
    locPkgMap,      \* the pkgMap of CollectPackages: key -> Files slice
    locPc,          \* "none", "parsed", "located" or "collected"
    ProtocFlags,    \* Wrapper.ProtocFlags, the slice header: len and cap
    flagsArray,     \* the array Wrapper.ProtocFlags points into
    argList,        \* the args of ParseArgs, every argument a string
    customMap,      \* the custom parameter of ParseArgs: name -> needs a value
    parsed,         \* what ParseArgs returned, <<>> before the call
    argPc           \* "none", "start" or "parsed"

cfgVars == <<Parallelism, ProtoFiles, NoExpand, PrintOnly>>
wrapVars == <<allProtos, infos, packages, allPackages, initCalled>>
mainVars == <<mainPc, order, idx, err, retErr>>
chanVars == <<nWorkers, pkgChanOpen, errChan, errCap, wg>>
workVars == <<wpc, wpkg>>
histVars == <<calls, failed, completed, firstSent, nRecv, late>>
envVars == <<fileDeps>>
tarjanVars == <<index, lowlink, onStack>>
cycleVars == <<sccs, checkErr, explanation, nChecks, firstCheck>>
exitVars == <<exitCode, exitCause>>
\* what the scheduler never touches
locVars == <<locInfos, locWarnings, locPkgMap, locPc>>
flagVars == <<ProtocFlags, flagsArray>>
argVars == <<argList, customMap, parsed, argPc>>
analysisVars == <<envVars, tarjanVars, cycleVars, exitVars, locVars, flagVars, argVars>>
schedVars == <<mainVars, chanVars, workVars, histVars>>
vars == <<cfgVars, wrapVars, mainVars, chanVars, workVars, histVars, analysisVars>>

Workers == 1 .. MaxParallelism

EmptyMap == [x \in {} |-> 0]

\* the protoc flags of the command line, as numbers below the file paths;
\* appended one by one they fill three cells of an array of four
InitialFlags == <<-1, -2, -3>>

----------------------------------------------------------------------------
\* Helpers.

Min(a, b) == IF a < b THEN a ELSE b

Range(s) == {s[i] : i \in DOMAIN s}

\* the sequences that enumerate the set S once each, in any order: the
\* orders in which a Go map with key set S may be iterated
Enumerations(S) ==
    {s \in [1 .. Cardinality(S) -> S] : Range(s) = S}

\* insert x into the ascending sequence s
RECURSIVE Insert(_, _)
Insert(x, s) ==
    IF s = <<>> THEN <<x>>
    ELSE IF x <= Head(s) THEN <<x>> \o s
    ELSE <<Head(s)>> \o Insert(x, Tail(s))

\* sort.Strings: the elements of s in ascending order, duplicates kept
RECURSIVE SortStrings(_)
SortStrings(s) ==
    IF s = <<>> THEN <<>>
    ELSE Insert(Head(s), SortStrings(Tail(s)))

----------------------------------------------------------------------------
\* Wrapper.Init and what it calls.

\* the files of the descriptor set protoc writes for protos with
\* --include_imports: protos and, transitively, the files they import
RECURSIVE DescribedFiles(_)
DescribedFiles(protos) ==
    LET more == protos \cup (UNION {fileDeps[f] : f \in protos} \cap Files)
    IN  IF more = protos THEN protos ELSE DescribedFiles(more)

\* the FileInfo of every file in the descriptor set protoc returns for
\* protos; cp gives the ComputedPackage that ComputeGoLocations derives.
\* FullPath is still the empty string.  Deps lists the imports of the file
\* in the order the file names them, here ascending.
GetFileInfos(cp, protos) ==
    [f \in DescribedFiles(protos) |->
        [Name |-> f, FullPath |-> EmptyPath, ComputedPackage |-> cp[f],
         Deps |-> SortStrings(CHOOSE s \in Enumerations(fileDeps[f]) : TRUE)]]

\* AnnotateFullPaths: the files of allProtos get the path they were given as
AnnotateFullPaths(inf, protos) ==
    [f \in DOMAIN inf |->
        IF f \in protos THEN [inf[f] EXCEPT !.FullPath = f] ELSE inf[f]]

\* the keys of the pkgMap of CollectPackages
PackageKeys(inf) == {inf[f].ComputedPackage : f \in DOMAIN inf}

\* CollectPackages, second loop: the keys of the deps map built for package
\* k, that is every file a member of k imports
PackageDepNames(inf, k) ==
    UNION {Range(inf[f].Deps) : f \in {g \in DOMAIN inf : inf[g].ComputedPackage = k}}

\* the orders in which "for _, dep := range deps" may append to pkg.Deps:
\* for every key of ks one enumeration of the package's deps map
RECURSIVE DepsOrders(_, _)
DepsOrders(inf, ks) ==
    IF ks = {} THEN {EmptyMap}
    ELSE LET k == CHOOSE x \in ks : TRUE
         IN  {(k :> s) @@ r : s \in Enumerations(PackageDepNames(inf, k)),
                              r \in DepsOrders(inf, ks \ {k})}

\* CollectPackages with "packageInfo.Files = []*FileInfo{info}" for the
\* append: every package keeps one member only
CollectPackages_Overwrite(inf, depsOrder) ==
    [k \in PackageKeys(inf) |->
        [ComputedPackage |-> k,
         Files |-> {CHOOSE f \in DOMAIN inf : inf[f].ComputedPackage = k},
         Deps |-> depsOrder[k]]]

\* CollectPackages.  First loop: bucket the files by ComputedPackage; Files
\* is kept as a set: its slice order is the iteration order of the infos map,
\* which Enumerations supplies where the slice is read.  Second loop: Deps
\* is the slice of the files the members import, in the order depsOrder
\* gives for the iteration of the deps map.
CollectPackages(inf, depsOrder) ==
    [k \in PackageKeys(inf) |->
        [ComputedPackage |-> k,
         Files |-> {f \in DOMAIN inf : inf[f].ComputedPackage = k},
         Deps |-> depsOrder[k]]]

\* the neededPackages set of Wrapper.Init
NeededPackages(inf, protos) == {inf[f].ComputedPackage : f \in protos}

\* Wrapper.Init.  fail is where the environment makes it fail: "config" (a
\* missing import directory or input file), "collect" (protoc fails in
\* GetFileInfos) or "none"; an empty ProtoFiles is a configuration error too.
\* When NoExpand is false ProtosBelow finds every file of Files.
WrapperInit(fail, cp) ==
    /\ mainPc = "new"
    /\ mainPc' = "idle"
    /\ IF fail = "config" \/ ProtoFiles = {}
       THEN UNCHANGED <<wrapVars, tarjanVars>>
       ELSE LET protos == IF NoExpand THEN ProtoFiles ELSE Files
                inf == AnnotateFullPaths(GetFileInfos(cp, protos), protos)
            IN  IF fail = "collect"
                THEN /\ allProtos' = protos
                     /\ UNCHANGED <<infos, packages, allPackages, initCalled, tarjanVars>>
                ELSE \E depsOrder \in DepsOrders(inf, PackageKeys(inf)) :
                     LET all == CollectPackages(inf, depsOrder)
                     IN  /\ allProtos' = protos
                         /\ infos' = inf
                         /\ allPackages' = all
                         /\ packages' = [k \in NeededPackages(inf, ProtoFiles) |-> all[k]]
                         /\ index' = [k \in DOMAIN all |-> 0]
                         /\ lowlink' = [k \in DOMAIN all |-> 0]
                         /\ onStack' = [k \in DOMAIN all |-> FALSE]
                         /\ initCalled' = TRUE
    /\ UNCHANGED <<argVars, flagVars, cfgVars, order, idx, err, retErr, chanVars, workVars, histVars,
                   envVars, cycleVars, exitVars, locVars>>

----------------------------------------------------------------------------
\* Wrapper.Generate.

\* packagesInOrder without the sort.Strings call
packagesInOrder_Unsorted(names) == names

\* packagesInOrder: names holds the keys of w.packages in map iteration
\* order; the result lists them sorted
packagesInOrder(names) == SortStrings(names)

\* the guard written as "w.Parallelism < 0"
ParallelismTooLow_Negative(configured) == configured < 0

\* the guard "if w.Parallelism < 1" of Generate
ParallelismTooLow(configured) == configured < 1

\* the worker count with the comparison turned round
EffectiveParallelism_Flipped(configured, nPackages) ==
    IF configured > nPackages THEN configured ELSE nPackages

\* the worker count: len(w.packages), lowered to w.Parallelism
EffectiveParallelism(configured, nPackages) ==
    IF configured < nPackages THEN configured ELSE nPackages

\* capacity of errChan: make(chan error, parallelism)
ErrChanCap(parallelism) == parallelism

\* the file arguments Generate (generate.go) passes to protoc for pkg: the
\* FullPath of every member, sorted.  files is pkg.Files in slice order.
GenerateArgs(files) ==
    SortStrings([i \in DOMAIN files |-> infos[files[i]].FullPath])

\* generate.go: "args := protocFlags" for the slice expression: args keeps the
\* spare capacity of the caller's slice
ArgsSlice_Whole(flags) == flags

\* generate.go: "args := protocFlags[0:len(protocFlags):len(protocFlags)]",
\* the same cells with the capacity cut to the length
ArgsSlice(flags) == [len |-> flags.len, cap |-> flags.len]

\* append(slice, xs...) on a slice of array: the cells read through the
\* result, and the array afterwards.  Within the capacity the new elements
\* are written into the array; beyond it a new array is allocated and the
\* old one is left as it is.
GoAppend(array, slice, xs) ==
    [result |-> SubSeq(array, 1, slice.len) \o xs,
     array |-> IF slice.len + Len(xs) <= slice.cap
               THEN [i \in DOMAIN array |->
                        IF i > slice.len /\ i <= slice.len + Len(xs)
                        THEN xs[i - slice.len] ELSE array[i]]
               ELSE array]

\* entry of Generate up to the start of the submission loop
GenerateStart ==
    /\ mainPc \in {"new", "idle"}
    /\ IF ~initCalled
       THEN /\ mainPc' = "returned"
            /\ retErr' = ErrNotInit
            /\ UNCHANGED <<order, idx, err, chanVars, workVars>>
       ELSE IF ParallelismTooLow(Parallelism)
       THEN /\ mainPc' = "returned"
            /\ retErr' = ErrParallelism
            /\ UNCHANGED <<order, idx, err, chanVars, workVars>>
       ELSE LET parallelism == EffectiveParallelism(Parallelism, Cardinality(DOMAIN packages))
            IN  /\ pkgChanOpen' = "open"
                /\ errChan' = <<>>
                /\ errCap' = ErrChanCap(parallelism)
                /\ wg' = parallelism
                /\ nWorkers' = parallelism
                /\ wpc' = [w \in Workers |-> IF w <= parallelism THEN "recv" ELSE "none"]
                /\ wpkg' = wpkg
                /\ err' = Nil
                /\ \E names \in Enumerations(DOMAIN packages) :
                       order' = packagesInOrder(names)
                /\ idx' = 1
                /\ mainPc' = IF DOMAIN packages = {} THEN "close" ELSE "select"
                /\ retErr' = retErr
    /\ UNCHANGED <<analysisVars, cfgVars, wrapVars, histVars>>

\* select case pkgChan <- pkg, met by worker w's receive in "for pkg := range
\* pkgChan"; the worker then calls Generate(pkg, ...)
Dispatch(w) ==
    /\ mainPc = "select"
    /\ pkgChanOpen = "open"
    /\ wpc[w] = "recv"
    /\ LET k == order[idx]
       IN  /\ wpc' = [wpc EXCEPT ![w] = "generating"]
           /\ wpkg' = [wpkg EXCEPT ![w] = k]
           /\ \E files \in Enumerations(packages[k].Files) :
                  LET appended == GoAppend(flagsArray, ArgsSlice(ProtocFlags),
                                           GenerateArgs(files))
                  IN  /\ calls' = Append(calls, [pkg |-> k,
                                                 args |-> GenerateArgs(files),
                                                 argv |-> appended.result])
                      /\ flagsArray' = appended.array
    /\ idx' = idx + 1
    /\ mainPc' = IF idx + 1 > Len(order) THEN "close" ELSE "select"
    /\ UNCHANGED <<envVars, tarjanVars, cycleVars, exitVars, locVars, ProtocFlags, argVars,
                   cfgVars, wrapVars, order, err, retErr, chanVars,
                   failed, completed, firstSent, nRecv, late>>

\* the error case with a plain "break", which leaves the select only: the
\* loop goes on with the next package
RecvErr_PlainBreak ==
    /\ mainPc = "select"
    /\ errChan # <<>>
    /\ err' = Head(errChan)
    /\ errChan' = Tail(errChan)
    /\ nRecv' = nRecv + 1
    /\ idx' = idx + 1
    /\ mainPc' = IF idx + 1 > Len(order) THEN "close" ELSE "select"
    /\ UNCHANGED <<analysisVars, cfgVars, wrapVars, order, retErr, nWorkers, pkgChanOpen,
                   errCap, wg, workVars, calls, failed, completed, firstSent, late>>

\* select case err = <-errChan, then break OUTER
RecvErr ==
    /\ mainPc = "select"
    /\ errChan # <<>>
    /\ err' = Head(errChan)
    /\ errChan' = Tail(errChan)
    /\ nRecv' = nRecv + 1
    /\ mainPc' = "close"
    /\ UNCHANGED <<analysisVars, cfgVars, wrapVars, order, idx, retErr, nWorkers, pkgChanOpen,
                   errCap, wg, workVars, calls, failed, completed, firstSent, late>>

\* close(pkgChan) written inside the submission loop: the channel is closed
\* while packages are still to be sent
ClosePkgChan_InLoop ==
    /\ mainPc \in {"select", "close"}
    /\ pkgChanOpen' = "closed"
    /\ mainPc' = IF mainPc = "close" THEN "wait" ELSE mainPc
    /\ UNCHANGED <<analysisVars, cfgVars, wrapVars, order, idx, err, retErr, nWorkers,
                   errChan, errCap, wg, workVars, histVars>>

\* close(pkgChan)
ClosePkgChan ==
    /\ mainPc = "close"
    /\ pkgChanOpen' = "closed"
    /\ mainPc' = "wait"
    /\ UNCHANGED <<analysisVars, cfgVars, wrapVars, order, idx, err, retErr, nWorkers,
                   errChan, errCap, wg, workVars, histVars>>

\* return err without wg.Wait()
WaitReturn_NoWait ==
    /\ mainPc = "wait"
    /\ mainPc' = "returned"
    /\ retErr' = err
    /\ UNCHANGED <<analysisVars, cfgVars, wrapVars, order, idx, err, chanVars, workVars, histVars>>

\* wg.Wait() and return err
WaitReturn ==
    /\ mainPc = "wait"
    /\ wg = 0
    /\ mainPc' = "returned"
    /\ retErr' = err
    /\ UNCHANGED <<analysisVars, cfgVars, wrapVars, order, idx, err, chanVars, workVars, histVars>>

\* the external generator call of worker w returns; ok is protoc's verdict.
\* With PrintOnly the command line is printed and the result is nil.
GenerateReturn(w, ok) ==
    /\ wpc[w] = "generating"
    /\ completed' = completed \cup {wpkg[w]}
    /\ late' = IF nRecv > 0 THEN late \cup {wpkg[w]} ELSE late
    /\ IF PrintOnly \/ ok
       THEN /\ wpc' = [wpc EXCEPT ![w] = "recv"]
            /\ wpkg' = [wpkg EXCEPT ![w] = 0]
            /\ failed' = failed
       ELSE /\ wpc' = [wpc EXCEPT ![w] = "send"]
            /\ wpkg' = wpkg
            /\ failed' = failed \cup {wpkg[w]}
    /\ UNCHANGED <<analysisVars, cfgVars, wrapVars, mainVars, chanVars, calls, firstSent, nRecv>>

\* a result channel that hands out the newest error first
WorkerSend_Front(w) ==
    /\ wpc[w] = "send"
    /\ Len(errChan) < errCap
    /\ errChan' = <<ErrGenerating(wpkg[w])>> \o errChan
    /\ firstSent' = IF firstSent = Nil THEN ErrGenerating(wpkg[w]) ELSE firstSent
    /\ wpc' = [wpc EXCEPT ![w] = "recv"]
    /\ wpkg' = [wpkg EXCEPT ![w] = 0]
    /\ UNCHANGED <<analysisVars, cfgVars, wrapVars, mainVars, nWorkers, pkgChanOpen, errCap, wg,
                   calls, failed, completed, nRecv, late>>

\* errChan <- fmt.Errorf("error generating package ..."): completes when the
\* buffer has a free slot
WorkerSend(w) ==
    /\ wpc[w] = "send"
    /\ Len(errChan) < errCap
    /\ errChan' = Append(errChan, ErrGenerating(wpkg[w]))
    /\ firstSent' = IF firstSent = Nil THEN ErrGenerating(wpkg[w]) ELSE firstSent
    /\ wpc' = [wpc EXCEPT ![w] = "recv"]
    /\ wpkg' = [wpkg EXCEPT ![w] = 0]
    /\ UNCHANGED <<analysisVars, cfgVars, wrapVars, mainVars, nWorkers, pkgChanOpen, errCap, wg,
                   calls, failed, completed, nRecv, late>>

\* a worker that also leaves its loop once a generator call has failed
WorkerExit_AfterError(w) ==
    /\ wpc[w] = "recv"
    /\ pkgChanOpen = "closed" \/ failed # {}
    /\ wpc' = [wpc EXCEPT ![w] = "exited"]
    /\ wg' = wg - 1
    /\ UNCHANGED <<analysisVars, cfgVars, wrapVars, mainVars, nWorkers, pkgChanOpen, errChan,
                   errCap, wpkg, histVars>>

\* the range loop of worker w ends on the closed pkgChan; wg.Done()
WorkerExit(w) ==
    /\ wpc[w] = "recv"
    /\ pkgChanOpen = "closed"
    /\ wpc' = [wpc EXCEPT ![w] = "exited"]
    /\ wg' = wg - 1
    /\ UNCHANGED <<analysisVars, cfgVars, wrapVars, mainVars, nWorkers, pkgChanOpen, errChan,
                   errCap, wpkg, histVars>>

----------------------------------------------------------------------------
\* Wrapper.CheckCycles (cycles.go) and what it calls.

ErrCycles == [kind |-> "cycles found", pkg |-> 0]

\* PackageInfo.ImportedPackageComputedNames: the ComputedPackage of the files
\* of p.Deps, in slice order, each once and p's own never; done is the seen
\* map as a set
RECURSIVE ImportedNamesFrom(_, _)
ImportedNamesFrom(deps, done) ==
    IF deps = <<>> THEN <<>>
    ELSE LET pkg == infos[Head(deps)].ComputedPackage
         IN  IF pkg \in done
             THEN ImportedNamesFrom(Tail(deps), done)
             ELSE <<pkg>> \o ImportedNamesFrom(Tail(deps), done \cup {pkg})

\* ImportedPackageComputedNames with an empty seen map
ImportedPackageComputedNames_SeenEmpty(p) == ImportedNamesFrom(p.Deps, {})

\* ImportedPackageComputedNames without "seen[pkg] = true": a package is
\* listed once for every file of it in p.Deps
ImportedPackageComputedNames_NoMark(p) ==
    SelectSeq([i \in DOMAIN p.Deps |-> infos[p.Deps[i]].ComputedPackage],
              LAMBDA pkg : pkg # p.ComputedPackage)

ImportedPackageComputedNames(p) == ImportedNamesFrom(p.Deps, {p.ComputedPackage})

\* p.Deps holds a nil pointer: CollectPackages stored infos[dep] for a name
\* dep that has no entry in infos
HasNilDep(p) == \E i \in DOMAIN p.Deps : p.Deps[i] \notin DOMAIN infos

\* tarjan, "if v.lowlink == v.index": pop the stack into scc down to v
RECURSIVE PopComponent(_, _, _)
PopComponent(st, v, scc) ==
    LET w == st.s[Len(st.s)]
        st1 == [st EXCEPT !.s = SubSeq(st.s, 1, Len(st.s) - 1),
                          !.onStack[w] = FALSE]
        scc1 == Append(scc, w)
    IN  IF w = v
        THEN [st1 EXCEPT !.sccs = Append(st1.sccs, scc1)]
        ELSE PopComponent(st1, v, scc1)

\* tarjan, the strongConnect closure.  st holds the fields index, lowlink and
\* onStack of the packages, the counter index of tarjan (next), the stack s
\* and the result sccs.  Successors visits the successors succ of v in turn.
\* ImportedPackageComputedNames reads d.ComputedPackage of every d of
\* v.Deps: on a nil d the goroutine panics, which st.panicked records; the
\* calls that are on the stack then do nothing more.
RECURSIVE strongConnect(_, _), Successors(_, _, _)
strongConnect(st, v) ==
    LET st1 == [st EXCEPT !.index[v] = st.next,
                          !.lowlink[v] = st.next,
                          !.next = st.next + 1,
                          !.s = Append(st.s, v),
                          !.onStack[v] = TRUE]
        st2 == IF HasNilDep(allPackages[v])
               THEN [st1 EXCEPT !.panicked = TRUE]
               ELSE Successors(st1, v, ImportedPackageComputedNames(allPackages[v]))
    IN  IF st2.panicked THEN st2
        ELSE IF st2.lowlink[v] = st2.index[v]
        THEN PopComponent(st2, v, <<>>)
        ELSE st2

Successors(st, v, succ) ==
    IF succ = <<>> \/ st.panicked THEN st
    ELSE LET w == Head(succ)
             st1 == IF st.index[w] = 0
                    THEN LET r == strongConnect(st, w)
                         IN  IF ~r.panicked /\ r.lowlink[w] < r.lowlink[v]
                             THEN [r EXCEPT !.lowlink[v] = r.lowlink[w]]
                             ELSE r
                    ELSE IF st.onStack[w] /\ st.index[w] < st.lowlink[v]
                    THEN [st EXCEPT !.lowlink[v] = st.index[w]]
                    ELSE st
         IN  Successors(st1, v, Tail(succ))

\* tarjan, the final loop over packagesInOrder()
RECURSIVE TarjanRoots(_, _)
TarjanRoots(st, roots) ==
    IF roots = <<>> \/ st.panicked THEN st
    ELSE TarjanRoots(IF st.index[Head(roots)] = 0
                     THEN strongConnect(st, Head(roots))
                     ELSE st,
                     Tail(roots))

\* tarjan: index starts at 1, sccs and s empty; the fields of the packages
\* are the ones the previous run left
tarjan(names) ==
    TarjanRoots([index |-> index, lowlink |-> lowlink, onStack |-> onStack,
                 next |-> 1, s |-> <<>>, sccs |-> <<>>, panicked |-> FALSE],
                packagesInOrder(names))

\* showComponent, the lines for the files of pkg (files: pkg.Files in slice
\* order) that import a file of package other; deps: what is left of f.Deps
RECURSIVE ImportLines(_, _, _, _)
ImportLines(files, fi, deps, other) ==
    IF fi > Len(files) THEN <<>>
    ELSE IF deps = <<>>
    THEN IF fi + 1 > Len(files) THEN <<>>
         ELSE ImportLines(files, fi + 1, infos[files[fi + 1]].Deps, other)
    ELSE LET dep == infos[Head(deps)]
             rest == ImportLines(files, fi, Tail(deps), other)
         IN  IF dep.ComputedPackage = other
             THEN <<[kind |-> "imports", from |-> infos[files[fi]].Name, to |-> dep.Name]>> \o rest
             ELSE rest

\* showComponent, the lines for package pkg: for each imported package that
\* is in the component, the edge and then the imports behind it
RECURSIVE EdgeLines(_, _, _, _)
EdgeLines(pkg, files, others, inCycle) ==
    IF others = <<>> THEN <<>>
    ELSE LET other == Head(others)
             rest == EdgeLines(pkg, files, Tail(others), inCycle)
         IN  IF other \in inCycle
             THEN <<[kind |-> "-->", from |-> pkg.ComputedPackage, to |-> other]>>
                  \o (IF files = <<>> THEN <<>>
                      ELSE ImportLines(files, 1, infos[files[1]].Deps, other))
                  \o rest
             ELSE rest

\* showComponent: the lines of the component pkgs (a sequence of keys);
\* fileOrder is the iteration order of the infos map, which fixed the order
\* of every pkg.Files
RECURSIVE showComponentFrom(_, _, _, _)
showComponentFrom(pkgs, i, inCycle, fileOrder) ==
    IF i > Len(pkgs) THEN <<>>
    ELSE LET pkg == allPackages[pkgs[i]]
             files == SelectSeq(fileOrder, LAMBDA f : f \in pkg.Files)
         IN  EdgeLines(pkg, files, ImportedPackageComputedNames(pkg), inCycle)
             \o showComponentFrom(pkgs, i + 1, inCycle, fileOrder)

\* showComponent with an inCycle map that holds every package
showComponent_AllInCycle(pkgs, fileOrder) ==
    showComponentFrom(pkgs, 1, DOMAIN allPackages, fileOrder)

showComponent(pkgs, fileOrder) == showComponentFrom(pkgs, 1, Range(pkgs), fileOrder)

\* CheckCycles: the texts of the components of more than one package
RECURSIVE CycleTexts(_, _)
CycleTexts(components, fileOrder) ==
    IF components = <<>> THEN <<>>
    ELSE (IF Len(Head(components)) > 1
          THEN <<showComponent(Head(components), fileOrder)>>
          ELSE <<>>)
         \o CycleTexts(Tail(components), fileOrder)

\* Wrapper.CheckCycles, called after Init has been called (whether Init
\* succeeded or not) and before Generate
CheckCycles ==
    /\ mainPc = "idle"
    /\ nChecks < MaxChecks
    /\ \E names \in Enumerations(DOMAIN packages) :
          LET st == tarjan(names)
              cyclic == \E i \in DOMAIN st.sccs : Len(st.sccs[i]) > 1
              result == IF cyclic THEN ErrCycles ELSE Nil
          IN  /\ ~st.panicked
              /\ sccs' = st.sccs
              /\ index' = st.index
              /\ lowlink' = st.lowlink
              /\ onStack' = st.onStack
              /\ checkErr' = result
              /\ firstCheck' = IF nChecks = 0
                               THEN <<[sccs |-> st.sccs, err |-> result]>>
                               ELSE firstCheck
              /\ IF cyclic
                 THEN \E fileOrder \in Enumerations(DOMAIN infos) :
                          explanation' = CycleTexts(st.sccs, fileOrder)
                 ELSE explanation' = <<>>
    /\ nChecks' = nChecks + 1
    /\ UNCHANGED <<argVars, flagVars, cfgVars, wrapVars, schedVars, envVars, exitVars, locVars>>

\* Wrapper.CheckCycles when tarjan dereferences a nil entry of some
\* pkg.Deps: the panic ends the run inside "w.sccs = w.tarjan()", with the
\* index, lowlink and onStack fields as written up to there
CheckCyclesPanic ==
    /\ mainPc = "idle"
    /\ nChecks < MaxChecks
    /\ \E names \in Enumerations(DOMAIN packages) :
          LET st == tarjan(names)
          IN  /\ st.panicked
              /\ index' = st.index
              /\ lowlink' = st.lowlink
              /\ onStack' = st.onStack
    /\ mainPc' = "panicked"
    /\ nChecks' = nChecks + 1
    /\ UNCHANGED <<argVars, flagVars, cfgVars, wrapVars, order, idx, err, retErr, chanVars,
                   workVars, histVars, envVars, exitVars, locVars, sccs, checkErr,
                   explanation, firstCheck>>

----------------------------------------------------------------------------
\* The state after the Wrapper literal is built by the caller, for proto
\* files that import nothing.
Init ==
    /\ Parallelism \in 0 .. MaxParallelism
    /\ ProtoFiles \in SUBSET Files
    /\ NoExpand \in BOOLEAN
    /\ PrintOnly \in BOOLEAN
    /\ allProtos = {}
    /\ infos = EmptyMap
    /\ packages = EmptyMap
    /\ allPackages = EmptyMap
    /\ initCalled = FALSE
    /\ mainPc = "new"
    /\ order = <<>>
    /\ idx = 0
    /\ err = Nil
    /\ retErr = Nil
    /\ nWorkers = 0
    /\ pkgChanOpen = "none"
    /\ errChan = <<>>
    /\ errCap = 0
    /\ wg = 0
    /\ wpc = [w \in Workers |-> "none"]
    /\ wpkg = [w \in Workers |-> 0]
    /\ calls = <<>>
    /\ failed = {}
    /\ completed = {}
    /\ firstSent = Nil
    /\ nRecv = 0
    /\ late = {}
    /\ fileDeps = [f \in Files |-> {}]
    /\ index = EmptyMap
    /\ lowlink = EmptyMap
    /\ onStack = EmptyMap
    /\ sccs = <<>>
    /\ checkErr = Nil
    /\ explanation = <<>>
    /\ nChecks = 0
    /\ firstCheck = <<>>
    /\ exitCode = -1
    /\ exitCause = "none"
    /\ locInfos = EmptyMap
    /\ locWarnings = {}
    /\ locPkgMap = EmptyMap
    /\ locPc = "none"
    /\ ProtocFlags = [len |-> Len(InitialFlags), cap |-> Len(InitialFlags) + 1]
    /\ flagsArray = InitialFlags \o <<EmptyPath>>
    /\ argList = <<>>
    /\ customMap = EmptyMap
    /\ parsed = <<>>
    /\ argPc = "none"

Next ==
    \/ \E fail \in {"none", "config", "collect"}, cp \in [Files -> Keys] :
           WrapperInit(fail, cp)
    \/ GenerateStart
    \/ \E w \in Workers : Dispatch(w)
    \/ RecvErr
    \/ ClosePkgChan
    \/ WaitReturn
    \/ \E w \in Workers, ok \in BOOLEAN : GenerateReturn(w, ok)
    \/ \E w \in Workers : WorkerSend(w)
    \/ \E w \in Workers : WorkerExit(w)

Spec == Init /\ [][Next]_vars

----------------------------------------------------------------------------
\* Cycle detection: a Wrapper for proto files with at most MaxImports
\* imports between them, on which Init and then CheckCycles are called.

\* the import relations of at most MaxImports imports; no file imports itself
ImportChoices ==
    LET pairs == {e \in Files \X Files : e[1] # e[2]}
        edgeSets == {es \in SUBSET pairs : Cardinality(es) <= MaxImports}
    IN  {[f \in Files |-> {e[2] : e \in {x \in es : x[1] = f}}] : es \in edgeSets}

\* the import relations of at most n imports out of ImportChoices
ImportChoicesUpTo(n) ==
    {d \in ImportChoices :
        Cardinality({e \in Files \X Files : e[2] \in d[e[1]]}) <= n}

\* the assignments of packages to files in which the files are numbered in
\* the order of their packages
PackageChoices == {cp \in [Files -> Keys] : \A f, g \in Files : f < g => cp[f] <= cp[g]}

\* the command lines that name no file, one file or every file
ProtoFileChoices == {S \in SUBSET Files : Cardinality(S) <= 1 \/ S = Files}

CycleInit ==
    /\ Parallelism = 1
    /\ ProtoFiles \in ProtoFileChoices
    /\ NoExpand = FALSE
    /\ PrintOnly = FALSE
    /\ allProtos = {}
    /\ infos = EmptyMap
    /\ packages = EmptyMap
    /\ allPackages = EmptyMap
    /\ initCalled = FALSE
    /\ mainPc = "new"
    /\ order = <<>>
    /\ idx = 0
    /\ err = Nil
    /\ retErr = Nil
    /\ nWorkers = 0
    /\ pkgChanOpen = "none"
    /\ errChan = <<>>
    /\ errCap = 0
    /\ wg = 0
    /\ wpc = [w \in Workers |-> "none"]
    /\ wpkg = [w \in Workers |-> 0]
    /\ calls = <<>>
    /\ failed = {}
    /\ completed = {}
    /\ firstSent = Nil
    /\ nRecv = 0
    /\ late = {}
    /\ fileDeps \in ImportChoices
    /\ index = EmptyMap
    /\ lowlink = EmptyMap
    /\ onStack = EmptyMap
    /\ sccs = <<>>
    /\ checkErr = Nil
    /\ explanation = <<>>
    /\ nChecks = 0
    /\ firstCheck = <<>>
    /\ exitCode = -1
    /\ exitCause = "none"
    /\ locInfos = EmptyMap
    /\ locWarnings = {}
    /\ locPkgMap = EmptyMap
    /\ locPc = "none"
    /\ ProtocFlags = [len |-> Len(InitialFlags), cap |-> Len(InitialFlags) + 1]
    /\ flagsArray = InitialFlags \o <<EmptyPath>>
    /\ argList = <<>>
    /\ customMap = EmptyMap
    /\ parsed = <<>>
    /\ argPc = "none"

CycleNext ==
    \/ \E fail \in {"none", "config", "collect"}, cp \in PackageChoices :
           WrapperInit(fail, cp)
    \/ CheckCycles

CycleSpec == CycleInit /\ [][CycleNext]_vars

----------------------------------------------------------------------------
\* A Wrapper whose files may import a name for which GetFileInfos delivers
\* no FileInfo, used through Init, CheckCycles and Generate in any sequence.

\* the imported name that has no entry in infos
Undiscovered == MaxFiles + 1

\* the import relations with at most one import between the files, and any
\* of the files importing the undiscovered name
MissingImportChoices ==
    {[f \in Files |-> d[f] \cup m[f]] :
        d \in ImportChoicesUpTo(1), m \in [Files -> SUBSET {Undiscovered}]}

MissingInit ==
    /\ Parallelism = 1
    /\ ProtoFiles \in ProtoFileChoices
    /\ NoExpand = FALSE
    /\ PrintOnly = FALSE
    /\ allProtos = {}
    /\ infos = EmptyMap
    /\ packages = EmptyMap
    /\ allPackages = EmptyMap
    /\ initCalled = FALSE
    /\ mainPc = "new"
    /\ order = <<>>
    /\ idx = 0
    /\ err = Nil
    /\ retErr = Nil
    /\ nWorkers = 0
    /\ pkgChanOpen = "none"
    /\ errChan = <<>>
    /\ errCap = 0
    /\ wg = 0
    /\ wpc = [w \in Workers |-> "none"]
    /\ wpkg = [w \in Workers |-> 0]
    /\ calls = <<>>
    /\ failed = {}
    /\ completed = {}
    /\ firstSent = Nil
    /\ nRecv = 0
    /\ late = {}
    /\ fileDeps \in MissingImportChoices
    /\ index = EmptyMap
    /\ lowlink = EmptyMap
    /\ onStack = EmptyMap
    /\ sccs = <<>>
    /\ checkErr = Nil
    /\ explanation = <<>>
    /\ nChecks = 0
    /\ firstCheck = <<>>
    /\ exitCode = -1
    /\ exitCause = "none"
    /\ locInfos = EmptyMap
    /\ locWarnings = {}
    /\ locPkgMap = EmptyMap
    /\ locPc = "none"
    /\ ProtocFlags = [len |-> Len(InitialFlags), cap |-> Len(InitialFlags) + 1]
    /\ flagsArray = InitialFlags \o <<EmptyPath>>
    /\ argList = <<>>
    /\ customMap = EmptyMap
    /\ parsed = <<>>
    /\ argPc = "none"

MissingNext ==
    \/ \E fail \in {"none", "config", "collect"}, cp \in PackageChoices :
           WrapperInit(fail, cp)
    \/ CheckCycles
    \/ CheckCyclesPanic
    \/ GenerateStart
    \/ \E w \in Workers : Dispatch(w)
    \/ RecvErr
    \/ ClosePkgChan
    \/ WaitReturn
    \/ \E w \in Workers, ok \in BOOLEAN : GenerateReturn(w, ok)
    \/ \E w \in Workers : WorkerSend(w)
    \/ \E w \in Workers : WorkerExit(w)

MissingSpec == MissingInit /\ [][MissingNext]_vars

----------------------------------------------------------------------------
\* The protowrap command (cmd/protowrap): main parses the arguments, builds
\* the Wrapper, calls Init, CheckCycles and Generate, and exits.

\* the arguments of the os.Exit calls of main and usageAndExit
ExitUsage == 1
ExitInit == 1
ExitCycles == 2
ExitGenerate == 1
ExitSuccess == 0

\* main up to the Wrapper literal.  outcome is what the arguments lead to:
\* "usage" (ParseArgs or a flag conversion fails, or no -I is given: all end
\* in usageAndExit), "version" (--version) or "ok"
MainParseArgs(outcome) ==
    /\ mainPc = "args"
    /\ IF outcome = "usage"
       THEN /\ mainPc' = "exited"
            /\ exitCode' = ExitUsage
            /\ exitCause' = "usage"
       ELSE IF outcome = "version"
       THEN /\ mainPc' = "exited"
            /\ exitCode' = ExitSuccess
            /\ exitCause' = "version"
       ELSE /\ mainPc' = "new"
            /\ UNCHANGED exitVars
    /\ UNCHANGED <<argVars, flagVars, cfgVars, wrapVars, order, idx, err, retErr, chanVars, workVars,
                   histVars, envVars, tarjanVars, cycleVars, locVars>>

\* main: "err = w.Init(); if err != nil { ... os.Exit(1) }", the exit
MainInitFailed ==
    /\ mainPc = "idle"
    /\ ~initCalled
    /\ mainPc' = "exited"
    /\ exitCode' = ExitInit
    /\ exitCause' = "init"
    /\ UNCHANGED <<argVars, flagVars, cfgVars, wrapVars, order, idx, err, retErr, chanVars, workVars,
                   histVars, envVars, tarjanVars, cycleVars, locVars>>

\* main: the call w.CheckCycles(), made once after Init succeeded
MainCheckCycles ==
    /\ initCalled
    /\ nChecks = 0
    /\ CheckCycles

\* main: "if err := w.CheckCycles(); err != nil { ... os.Exit(2) }", the exit
MainCyclesFailed ==
    /\ mainPc = "idle"
    /\ nChecks = 1
    /\ checkErr # Nil
    /\ mainPc' = "exited"
    /\ exitCode' = ExitCycles
    /\ exitCause' = "cycles"
    /\ UNCHANGED <<argVars, flagVars, cfgVars, wrapVars, order, idx, err, retErr, chanVars, workVars,
                   histVars, envVars, tarjanVars, cycleVars, locVars>>

\* main calling Generate although CheckCycles returned an error
MainGenerate_IgnoreCycles ==
    /\ mainPc = "idle"
    /\ nChecks = 1
    /\ GenerateStart

\* main: the call w.Generate(), reached when CheckCycles returned nil
MainGenerate ==
    /\ mainPc = "idle"
    /\ nChecks = 1
    /\ checkErr = Nil
    /\ GenerateStart

\* main: "if err := w.Generate(); err != nil { ... os.Exit(1) }" and the end
\* of main
MainGenerateDone ==
    /\ mainPc = "returned"
    /\ mainPc' = "exited"
    /\ exitCode' = IF retErr # Nil THEN ExitGenerate ELSE ExitSuccess
    /\ exitCause' = IF retErr # Nil THEN "generate" ELSE "end"
    /\ UNCHANGED <<argVars, flagVars, cfgVars, wrapVars, order, idx, err, retErr, chanVars, workVars,
                   histVars, envVars, tarjanVars, cycleVars, locVars>>

MainInit ==
    /\ Parallelism \in 0 .. MaxParallelism
    /\ ProtoFiles \in ProtoFileChoices
    /\ NoExpand = FALSE
    /\ PrintOnly = FALSE
    /\ allProtos = {}
    /\ infos = EmptyMap
    /\ packages = EmptyMap
    /\ allPackages = EmptyMap
    /\ initCalled = FALSE
    /\ mainPc = "args"
    /\ order = <<>>
    /\ idx = 0
    /\ err = Nil
    /\ retErr = Nil
    /\ nWorkers = 0
    /\ pkgChanOpen = "none"
    /\ errChan = <<>>
    /\ errCap = 0
    /\ wg = 0
    /\ wpc = [w \in Workers |-> "none"]
    /\ wpkg = [w \in Workers |-> 0]
    /\ calls = <<>>
    /\ failed = {}
    /\ completed = {}
    /\ firstSent = Nil
    /\ nRecv = 0
    /\ late = {}
    /\ fileDeps \in ImportChoicesUpTo(MaxImports - 1)
    /\ index = EmptyMap
    /\ lowlink = EmptyMap
    /\ onStack = EmptyMap
    /\ sccs = <<>>
    /\ checkErr = Nil
    /\ explanation = <<>>
    /\ nChecks = 0
    /\ firstCheck = <<>>
    /\ exitCode = -1
    /\ exitCause = "none"
    /\ locInfos = EmptyMap
    /\ locWarnings = {}
    /\ locPkgMap = EmptyMap
    /\ locPc = "none"
    /\ ProtocFlags = [len |-> Len(InitialFlags), cap |-> Len(InitialFlags) + 1]
    /\ flagsArray = InitialFlags \o <<EmptyPath>>
    /\ argList = <<>>
    /\ customMap = EmptyMap
    /\ parsed = <<>>
    /\ argPc = "none"

MainNext ==
    \/ \E outcome \in {"usage", "version", "ok"} : MainParseArgs(outcome)
    \/ \E fail \in {"none", "config", "collect"}, cp \in PackageChoices :
           WrapperInit(fail, cp)
    \/ MainInitFailed
    \/ MainCheckCycles
    \/ MainCyclesFailed
    \/ MainGenerate
    \/ \E w \in Workers : Dispatch(w)
    \/ RecvErr
    \/ ClosePkgChan
    \/ WaitReturn
    \/ \E w \in Workers, ok \in BOOLEAN : GenerateReturn(w, ok)
    \/ \E w \in Workers : WorkerSend(w)
    \/ \E w \in Workers : WorkerExit(w)
    \/ MainGenerateDone

MainSpec == MainInit /\ [][MainNext]_vars

----------------------------------------------------------------------------
\* The scheduler under the Go runtime's scheduling: a goroutine that can
\* take a step eventually takes one, and every external generator call
\* eventually returns.
MainStep == RecvErr \/ ClosePkgChan \/ WaitReturn \/ \E w \in Workers : Dispatch(w)

WorkerStep(w) ==
    \/ Dispatch(w)
    \/ \E ok \in BOOLEAN : GenerateReturn(w, ok)
    \/ WorkerSend(w)
    \/ WorkerExit(w)

FairSpec ==
    /\ Init
    /\ [][Next]_vars
    /\ WF_vars(MainStep)
    /\ \A w \in Workers : WF_vars(WorkerStep(w))

----------------------------------------------------------------------------
\* Properties of Wrapper.Generate.

\* Generate got past its two configuration checks and built its channels
SchedulerRan == pkgChanOpen # "none"

Returned == mainPc = "returned"

\* keys of the packages handed to a worker so far
Dispatched == {calls[i].pkg : i \in DOMAIN calls}

\* number of generator calls in flight
InFlight == Cardinality({w \in Workers : wpc[w] = "generating"})

NeededCount == Cardinality(DOMAIN packages)

\* C1: when Generate has returned and the generator failed for at least one
\* dispatched package, the returned error is not nil.
C1_NoSilentFailure ==
    (Returned /\ failed # {}) => retErr # Nil

\* C2: once Generate has started its workers it eventually returns, given
\* that every goroutine that can step does and every generator call returns.
C2_GenerateReturns == SchedulerRan ~> Returned

\* C3: never more generator calls in flight than min(Parallelism, number of
\* needed packages), and exactly that many workers are started.
C3_BoundedInFlight ==
    /\ InFlight <= Min(Parallelism, NeededCount)
    /\ SchedulerRan =>
          /\ nWorkers = Min(Parallelism, NeededCount)
          /\ Cardinality({w \in Workers : wpc[w] # "none"}) = nWorkers

C3_Witness ==
    /\ InFlight = 2
    /\ Parallelism = 2
    /\ NeededCount = 3

\* C4: a worker that is about to send an error always finds a free slot in
\* errChan.
C4_SendNeverBlocks ==
    \A w \in Workers : wpc[w] = "send" => Len(errChan) < errCap

\* C5: once the submission loop has received an error no further package is
\* handed to a worker; the receive records the head of errChan in err and
\* leaves the loop, the step after it closes pkgChan, and the recorded error
\* is the one returned.
C5_StopOnError ==
    [][ /\ nRecv > 0 => (calls' = calls /\ idx' = idx /\ err' = err)
        /\ nRecv' > nRecv =>
              /\ err' = Head(errChan)
              /\ err' # Nil
              /\ mainPc' = "close"
        /\ (mainPc = "close" /\ mainPc' # "close") => pkgChanOpen' = "closed"
        /\ (nRecv > 0 /\ mainPc' = "returned") => retErr' = err
      ]_vars

C5_Witness ==
    /\ Returned
    /\ nRecv = 1
    /\ retErr # Nil
    /\ Len(calls) < Len(order)

\* C6: a non-nil error returned by a Generate run that started its workers
\* is the first error placed on errChan and names a dispatched package whose
\* call failed; the loop receives at most one error, and errors placed later
\* do not change the value to return.
C6_FirstErrorReturned ==
    /\ [](nRecv <= 1)
    /\ []((SchedulerRan /\ Returned /\ retErr # Nil) =>
              /\ retErr = firstSent
              /\ retErr.pkg \in Dispatched
              /\ retErr.pkg \in failed)
    /\ [][nRecv > 0 => err' = err]_vars

C6_Witness ==
    /\ Returned
    /\ retErr # Nil
    /\ retErr = firstSent
    /\ Cardinality(failed) >= 2
    /\ errChan # <<>>

\* C7: packages are handed out in ascending key order: the packages
\* dispatched so far are the smallest keys of the needed packages.
C7_SortedPrefix ==
    /\ \A i, j \in DOMAIN calls : i < j => calls[i].pkg < calls[j].pkg
    /\ \A k \in Dispatched : \A j \in DOMAIN packages : j < k => j \in Dispatched

C7_Witness ==
    /\ Len(calls) = 2
    /\ NeededCount = 3

C9_NoCancellation ==
    /\ []((SchedulerRan /\ Returned) =>
              /\ completed = Dispatched
              /\ \A w \in Workers : wpc[w] \in {"none", "exited"}
              /\ wg = 0)
    /\ [][\A w \in Workers :
             (wpc[w] = "generating" /\ wpc'[w] # "generating") =>
                 /\ wpkg[w] \in completed'
                 /\ wpc'[w] \in {"recv", "send"}
         ]_vars

C9_Witness ==
    /\ Returned
    /\ nRecv = 1
    /\ late # {}

\* C10: with Parallelism < 1 no worker is started, no channel is created and
\* no generator call is made, and Generate returns an error.
C10_ParallelismChecked ==
    Parallelism < 1 =>
        /\ nWorkers = 0
        /\ pkgChanOpen = "none"
        /\ \A w \in Workers : wpc[w] = "none"
        /\ calls = <<>>
        /\ mainPc \in {"new", "idle", "returned"}
        /\ Returned => retErr # Nil

C10_Witness ==
    /\ Parallelism < 1
    /\ initCalled
    /\ Returned
    /\ retErr = ErrParallelism

----------------------------------------------------------------------------
\* Properties of Wrapper.CheckCycles.

\* the package graph: P -> Q when some member file of P imports a file whose
\* ComputedPackage is Q, and Q is not P
PkgEdge(P, Q) ==
    /\ P # Q
    /\ \E f \in DOMAIN infos :
          /\ infos[f].ComputedPackage = P
          /\ \E d \in Range(infos[f].Deps) : infos[d].ComputedPackage = Q

\* the packages reachable from the packages of S
RECURSIVE ReachFrom(_)
ReachFrom(S) ==
    LET more == S \cup {Q \in DOMAIN allPackages : \E P \in S : PkgEdge(P, Q)}
    IN  IF more = S THEN S ELSE ReachFrom(more)

ReachableFromNeeded == ReachFrom(DOMAIN packages)

HasReachableCycle ==
    \E P, Q \in ReachableFromNeeded :
        P # Q /\ Q \in ReachFrom({P}) /\ P \in ReachFrom({Q})

\* some file of P imports another file of P, and no file of P imports a file
\* of another package
SelfOnly(P) ==
    /\ \A Q \in DOMAIN allPackages : ~PkgEdge(P, Q)
    /\ \E f \in allPackages[P].Files :
          \E d \in Range(infos[f].Deps) : infos[d].ComputedPackage = P

\* the components of more than one package, in the order of sccs
MultiComponents == SelectSeq(sccs, LAMBDA c : Len(c) > 1)

\* C11: every CheckCycles call on an initialized Wrapper returns an error
\* exactly when two distinct packages reachable from the needed packages are
\* reachable from each other.
C11_ErrorIffCycle ==
    (initCalled /\ nChecks >= 1) => ((checkErr # Nil) <=> HasReachableCycle)

\* the same for the first call on the Wrapper only
FirstCheckErrorIffCycle ==
    (initCalled /\ nChecks >= 1) => ((firstCheck[1].err # Nil) <=> HasReachableCycle)

\* C12: the traversal has no edge from a package to itself, no component
\* holds a package twice, and a package that depends only on itself is found
\* as a component of size 1 and named in no reported cycle.
C12_NoSelfCycle ==
    initCalled =>
        /\ \A P \in DOMAIN allPackages :
              P \notin Range(ImportedPackageComputedNames(allPackages[P]))
        /\ \A i \in DOMAIN sccs :
              \A a, b \in DOMAIN sccs[i] : sccs[i][a] = sccs[i][b] => a = b
        /\ \A P \in DOMAIN allPackages :
              SelfOnly(P) =>
                  /\ \A i \in DOMAIN sccs : P \in Range(sccs[i]) => sccs[i] = <<P>>
                  /\ (nChecks = 1 /\ P \in ReachableFromNeeded) =>
                         \E i \in DOMAIN sccs : sccs[i] = <<P>>
                  /\ \A t \in DOMAIN explanation : \A l \in DOMAIN explanation[t] :
                         explanation[t][l].kind = "-->" =>
                             P \notin {explanation[t][l].from, explanation[t][l].to}

C12_Witness ==
    /\ initCalled
    /\ nChecks = 1
    /\ \E P \in DOMAIN packages :
          /\ SelfOnly(P)
          /\ \E i \in DOMAIN sccs : sccs[i] = <<P>>
          /\ Len(sccs) = 2

\* C13: a second CheckCycles call yields the components and the verdict of
\* the first call.
C13_SecondRunSame ==
    (initCalled /\ nChecks >= 2) =>
        /\ sccs = firstCheck[1].sccs
        /\ checkErr = firstCheck[1].err

\* the lines of text that follow line i up to the next edge line
ImportBlock(text, i) ==
    {text[j] : j \in {m \in i + 1 .. Len(text) :
                          \A n \in i + 1 .. m : text[n].kind = "imports"}}

\* C14: the text of a component of more than one package has, for every
\* package edge P -> Q inside the component, one edge line followed by
\* exactly the lines "f imports d" with f a file of P and d an import of f in
\* package Q, and has no edge line for an edge that leaves the component.
C14_ExplanationComplete ==
    (initCalled /\ nChecks >= 1) =>
        /\ Len(explanation) = Len(MultiComponents)
        /\ \A t \in DOMAIN explanation :
              LET text == explanation[t]
                  comp == Range(MultiComponents[t])
              IN  /\ \A l \in DOMAIN text :
                        text[l].kind = "-->" =>
                            /\ text[l].from \in comp
                            /\ text[l].to \in comp
                            /\ PkgEdge(text[l].from, text[l].to)
                  /\ \A P, Q \in comp :
                        PkgEdge(P, Q) =>
                            /\ Cardinality({l \in DOMAIN text :
                                   text[l] = [kind |-> "-->", from |-> P, to |-> Q]}) = 1
                            /\ \A l \in DOMAIN text :
                                  text[l] = [kind |-> "-->", from |-> P, to |-> Q] =>
                                      /\ ImportBlock(text, l) =
                                            {[kind |-> "imports", from |-> f, to |-> d] :
                                                <<f, d>> \in {x \in Files \X Files :
                                                    /\ infos[x[1]].ComputedPackage = P
                                                    /\ x[2] \in Range(infos[x[1]].Deps)
                                                    /\ infos[x[2]].ComputedPackage = Q}}
                                      /\ \A a, b \in l + 1 .. Len(text) :
                                            (text[a] = text[b] /\ text[a] \in ImportBlock(text, l)) =>
                                                a = b

C14_Witness ==
    /\ initCalled
    /\ nChecks = 1
    /\ Len(explanation) = 1
    /\ \E l \in DOMAIN explanation[1] :
          /\ explanation[1][l].kind = "-->"
          /\ Cardinality(ImportBlock(explanation[1], l)) = 2

----------------------------------------------------------------------------
\* Properties of the protowrap command.

Exited == mainPc = "exited"

\* C15: a generator call is made, and the scheduler of Generate is started,
\* only after Init returned no error and then CheckCycles returned no error;
\* a run in which a cycle is found or Init fails makes no generator call.
C15_GenerateAfterChecks ==
    /\ []((calls # <<>> \/ SchedulerRan) =>
              /\ initCalled
              /\ nChecks = 1
              /\ checkErr = Nil
              /\ ~HasReachableCycle)
    /\ []((Exited /\ exitCause \in {"usage", "init", "cycles"}) => calls = <<>>)
    /\ [][nChecks' > nChecks => (initCalled /\ ~SchedulerRan)]_vars
    /\ [][(SchedulerRan' /\ ~SchedulerRan) => (initCalled /\ nChecks = 1 /\ checkErr = Nil)]_vars

C15_Witness ==
    /\ Exited
    /\ exitCause = "end"
    /\ Len(calls) = 2
    /\ \E P, Q \in DOMAIN allPackages : PkgEdge(P, Q)

\* C16: the process exits with 0 on success, and with a non-zero code that
\* tells the failure class otherwise: the codes of configuration errors, of
\* cycle errors and of generation failures are pairwise distinct.
C16_DistinctExitCodes ==
    Exited =>
        /\ exitCause \in {"end", "version"} => exitCode = 0
        /\ exitCause \in {"usage", "init", "cycles", "generate"} => exitCode # 0
        /\ exitCause \in {"usage", "init"} => exitCode \notin {ExitCycles, ExitGenerate}
        /\ exitCause = "cycles" => exitCode \notin {ExitUsage, ExitInit, ExitGenerate}
        /\ exitCause = "generate" => exitCode \notin {ExitUsage, ExitInit, ExitCycles}

----------------------------------------------------------------------------
\* ComputeGoLocations and the first loop of CollectPackages on strings.  A
\* string is a sequence of one-character strings.

MaxLen == 3          \* longest go_package
MaxNameLen == 3      \* longest file name
MaxPkgLen == 1       \* longest declared package

Letters == {"a", "b"}
Digits == {"1"}
GoPackageChars == {"a", "/", ";"}
NameChars == {"a", "/", "."}
PackageChars == {"a", ".", "_"}

Strings(chars, n) == UNION {[1 .. k -> chars] : k \in 0 .. n}

\* strings.LastIndex for a one-character separator: the 0-based index of the
\* last c in s, -1 when there is none
LastIndex(s, c) ==
    LET at == {i \in DOMAIN s : s[i] = c}
    IN  IF at = {} THEN -1 ELSE (CHOOSE i \in at : \A j \in at : j <= i) - 1

\* strings.Contains for a one-character substring
Contains(s, c) == \E i \in DOMAIN s : s[i] = c

\* the elements of a path between its slashes
RECURSIVE SplitSlash(_)
SplitSlash(s) ==
    LET i == LastIndex(s, "/")
    IN  IF i = -1 THEN <<s>>
        ELSE Append(SplitSlash(SubSeq(s, 1, i)), SubSeq(s, i + 2, Len(s)))

\* filepath.Clean, the walk over the elements: empty and "." elements are
\* dropped, ".." removes the element before it (or is dropped at the root,
\* or kept at the start of a relative path)
RECURSIVE CleanElems(_, _, _)
CleanElems(elems, rooted, out) ==
    IF elems = <<>> THEN out
    ELSE LET e == Head(elems)
             rest == Tail(elems)
         IN  IF e = <<>> \/ e = <<".">> THEN CleanElems(rest, rooted, out)
             ELSE IF e = <<".", ".">>
             THEN IF out # <<>> /\ out[Len(out)] # <<".", ".">>
                  THEN CleanElems(rest, rooted, SubSeq(out, 1, Len(out) - 1))
                  ELSE IF rooted THEN CleanElems(rest, rooted, out)
                  ELSE CleanElems(rest, rooted, Append(out, e))
             ELSE CleanElems(rest, rooted, Append(out, e))

RECURSIVE JoinSlash(_)
JoinSlash(elems) ==
    IF elems = <<>> THEN <<>>
    ELSE IF Len(elems) = 1 THEN elems[1]
    ELSE elems[1] \o <<"/">> \o JoinSlash(Tail(elems))

\* filepath.Clean
Clean(path) ==
    IF path = <<>> THEN <<".">>
    ELSE LET rooted == path[1] = "/"
             body == JoinSlash(CleanElems(SplitSlash(path), rooted, <<>>))
         IN  IF rooted THEN <<"/">> \o body
             ELSE IF body = <<>> THEN <<".">> ELSE body

\* filepath.Dir: all but the last element of path, cleaned
Dir(path) == Clean(SubSeq(path, 1, LastIndex(path, "/") + 1))

\* unicode.IsLetter and unicode.IsDigit on the characters in use
IsLetter(r) == r \in Letters
IsDigit(r) == r \in Digits

\* badToUnderscore leaving every character as it is
badToUnderscore_Keep(r) == r

badToUnderscore(r) ==
    IF IsLetter(r) \/ IsDigit(r) \/ r = "_" THEN r ELSE "_"

\* strings.Map(badToUnderscore, s)
MapBadToUnderscore(s) == [i \in DOMAIN s |-> badToUnderscore(s[i])]

\* baseName: the last path element of name, its last dotted suffix removed
baseName(name) ==
    LET i == LastIndex(name, "/")
        last == IF i >= 0 THEN SubSeq(name, i + 2, Len(name)) ELSE name
        j == LastIndex(last, ".")
    IN  IF j >= 0 THEN SubSeq(last, 1, j) ELSE last

\* the body of the loop of ComputeGoLocations for one FileInfo: the
\* ComputedPackage it assigns, and whether it prints the warning
GoLocation(info) ==
    LET dir == Dir(info.Name)
        pkg == info.GoPackage
        slash == LastIndex(pkg, "/")
    IN  IF slash > 0
        THEN [ComputedPackage |->
                  IF Contains(pkg, ";") THEN pkg
                  ELSE pkg \o <<";">> \o SubSeq(pkg, slash + 2, Len(pkg)),
              warned |-> FALSE]
        ELSE LET pkg2 == IF pkg = <<>> THEN info.Package ELSE pkg
                 pkg3 == IF pkg2 = <<>> THEN baseName(info.Name) ELSE pkg2
             IN  [ComputedPackage |-> dir \o <<";">> \o MapBadToUnderscore(pkg3),
                  warned |-> pkg2 = <<>>]

\* ComputeGoLocations, the iterations from the i-th on of
\* "for _, info := range infos", the map being iterated in the given order;
\* st holds the infos as updated so far and the warnings printed so far
RECURSIVE ComputeGoLocationsFrom(_, _, _)
ComputeGoLocationsFrom(st, iter, i) ==
    IF i > Len(iter) THEN st
    ELSE LET name == iter[i]
             loc == GoLocation(st.infos[name])
         IN  ComputeGoLocationsFrom(
                 [infos |-> [st.infos EXCEPT ![name].ComputedPackage = loc.ComputedPackage],
                  warnings |-> IF loc.warned THEN Append(st.warnings, name)
                               ELSE st.warnings],
                 iter, i + 1)

\* ComputeGoLocations with pkg declared before the loop and assigned only
\* from a non-empty go_package: a file without go_package sees the pkg of
\* the file iterated before it
ComputeGoLocations_Carry(inf, iter) ==
    LET pkgAt[i \in 0 .. Len(iter)] ==
            IF i = 0 THEN <<>>
            ELSE IF inf[iter[i]].GoPackage # <<>> THEN inf[iter[i]].GoPackage
            ELSE pkgAt[i - 1]
        at(name) == CHOOSE i \in DOMAIN iter : iter[i] = name
        loc(name) == GoLocation([inf[name] EXCEPT !.GoPackage = pkgAt[at(name)]])
    IN  [infos |-> [name \in DOMAIN inf |->
                       [inf[name] EXCEPT !.ComputedPackage = loc(name).ComputedPackage]],
         warnings |-> SelectSeq(iter, LAMBDA name : loc(name).warned)]

ComputeGoLocations(inf, iter) ==
    ComputeGoLocationsFrom([infos |-> inf, warnings |-> <<>>], iter, 1)

\* CollectPackages, the iterations from the i-th on of its first loop
RECURSIVE CollectPackagesFrom(_, _, _, _)
CollectPackagesFrom(pkgMap, inf, iter, i) ==
    IF i > Len(iter) THEN pkgMap
    ELSE LET info == inf[iter[i]]
             key == info.ComputedPackage
             packageInfo == IF key \in DOMAIN pkgMap THEN pkgMap[key]
                            ELSE [ComputedPackage |-> key, Files |-> <<>>]
             appended == [packageInfo EXCEPT !.Files = Append(@, info.Name)]
         IN  CollectPackagesFrom(
                 [k \in DOMAIN pkgMap \cup {key} |->
                     IF k = key THEN appended ELSE pkgMap[k]],
                 inf, iter, i + 1)

\* the first loop with "packageInfo.Files = []*FileInfo{info}" for the
\* append: a package keeps the last of its files only
CollectPackagesFiles_Overwrite(inf, iter) ==
    [key \in {inf[name].ComputedPackage : name \in DOMAIN inf} |->
        LET last == CHOOSE i \in DOMAIN iter :
                        /\ inf[iter[i]].ComputedPackage = key
                        /\ \A j \in DOMAIN iter :
                               inf[iter[j]].ComputedPackage = key => j <= i
        IN  [ComputedPackage |-> key, Files |-> <<iter[last]>>]]

\* CollectPackages, first loop: the pkgMap with the Files slices, the infos
\* map being iterated in the given order
CollectPackagesFiles(inf, iter) == CollectPackagesFrom(EmptyMap, inf, iter, 1)

\* the FileInfos GetFileInfos may deliver for a file of one of the names
FileInfoChoices(names, packages_, goPackages) ==
    [Name : names, Package : packages_, GoPackage : goPackages,
     ComputedPackage : {<<>>}]

\* the names protoc gives: relative paths without empty, "." or ".." elements
ProtoNames ==
    {s \in Strings(NameChars, MaxNameLen) :
        \A e \in Range(SplitSlash(s)) : e \notin {<<>>, <<".">>, <<".", ".">>}}

FirstFiles ==
    FileInfoChoices(ProtoNames,
                    Strings(PackageChars, MaxPkgLen),
                    Strings(GoPackageChars, MaxLen))

\* a second file "b", one for every branch of the loop body
OtherFiles ==
    FileInfoChoices({<<"b">>}, {<<>>, <<"a">>},
                    {<<>>, <<"a">>, <<"a", "/", "a">>, <<"a", "/", "a", ";", "a">>})

\* the infos maps: one file, or one file and a second one
LocInputs ==
    {(i.Name :> i) : i \in FirstFiles}
        \cup {(i.Name :> i) @@ (j.Name :> j) : i \in FirstFiles, j \in OtherFiles}

LocInit ==
    /\ Parallelism = 1
    /\ ProtoFiles = {}
    /\ NoExpand = FALSE
    /\ PrintOnly = FALSE
    /\ allProtos = {}
    /\ infos = EmptyMap
    /\ packages = EmptyMap
    /\ allPackages = EmptyMap
    /\ initCalled = FALSE
    /\ mainPc = "new"
    /\ order = <<>>
    /\ idx = 0
    /\ err = Nil
    /\ retErr = Nil
    /\ nWorkers = 0
    /\ pkgChanOpen = "none"
    /\ errChan = <<>>
    /\ errCap = 0
    /\ wg = 0
    /\ wpc = [w \in Workers |-> "none"]
    /\ wpkg = [w \in Workers |-> 0]
    /\ calls = <<>>
    /\ failed = {}
    /\ completed = {}
    /\ firstSent = Nil
    /\ nRecv = 0
    /\ late = {}
    /\ fileDeps = [f \in Files |-> {}]
    /\ index = EmptyMap
    /\ lowlink = EmptyMap
    /\ onStack = EmptyMap
    /\ sccs = <<>>
    /\ checkErr = Nil
    /\ explanation = <<>>
    /\ nChecks = 0
    /\ firstCheck = <<>>
    /\ exitCode = -1
    /\ exitCause = "none"
    /\ locInfos \in LocInputs
    /\ locWarnings = {}
    /\ locPkgMap = EmptyMap
    /\ locPc = "parsed"
    /\ ProtocFlags = [len |-> Len(InitialFlags), cap |-> Len(InitialFlags) + 1]
    /\ flagsArray = InitialFlags \o <<EmptyPath>>
    /\ argList = <<>>
    /\ customMap = EmptyMap
    /\ parsed = <<>>
    /\ argPc = "none"

\* Wrapper.Init: "ComputeGoLocations(w.infos)"
Locate ==
    /\ locPc = "parsed"
    /\ \E iter \in Enumerations(DOMAIN locInfos) :
           LET st == ComputeGoLocations(locInfos, iter)
           IN  /\ locInfos' = st.infos
               /\ locWarnings' = Range(st.warnings)
    /\ locPc' = "located"
    /\ UNCHANGED <<argVars, flagVars, cfgVars, wrapVars, schedVars, envVars, tarjanVars, cycleVars,
                   exitVars, locPkgMap>>

\* Wrapper.Init: "CollectPackages(w.infos, ...)", the first loop
Collect ==
    /\ locPc = "located"
    /\ \E iter \in Enumerations(DOMAIN locInfos) :
           locPkgMap' = CollectPackagesFiles(locInfos, iter)
    /\ locPc' = "collected"
    /\ UNCHANGED <<argVars, flagVars, cfgVars, wrapVars, schedVars, envVars, tarjanVars, cycleVars,
                   exitVars, locInfos, locWarnings>>

LocNext == Locate \/ Collect

LocSpec == LocInit /\ [][LocNext]_vars

----------------------------------------------------------------------------
\* Properties of ComputeGoLocations and CollectPackages.

Located == locPc \in {"located", "collected"}

\* the text after the last '/' of s
AfterLastSlash(s) ==
    LET at == CHOOSE i \in DOMAIN s :
                  s[i] = "/" /\ \A j \in DOMAIN s : s[j] = "/" => j <= i
    IN  [k \in 1 .. Len(s) - at |-> s[at + k]]

\* what C17 gives a file with the annotation a
AnnotationLocation(a) ==
    IF Contains(a, ";") THEN a ELSE a \o <<";">> \o AfterLastSlash(a)

\* C17: a file whose go_package contains '/' at any position gets the
\* go_package itself as ComputedPackage when it also contains ';', and
\* otherwise the go_package, ';' and the text after its last '/'; the name
\* and the declared package of the file play no part.
C17_SlashAnnotation ==
    Located =>
        \A name \in DOMAIN locInfos :
            Contains(locInfos[name].GoPackage, "/") =>
                locInfos[name].ComputedPackage =
                    AnnotationLocation(locInfos[name].GoPackage)

\* the same for the go_packages with a '/' after their first character
InnerSlashAnnotation ==
    Located =>
        \A name \in DOMAIN locInfos :
            (\E i \in 2 .. Len(locInfos[name].GoPackage) :
                 locInfos[name].GoPackage[i] = "/") =>
                locInfos[name].ComputedPackage =
                    AnnotationLocation(locInfos[name].GoPackage)

\* an identifier character: a letter, a digit or the underscore
IsIdentChar(c) == c \in Letters \cup Digits \cup {"_"}

\* out is n with every character that is no identifier character replaced
\* by '_'
Sanitized(n, out) ==
    /\ Len(out) = Len(n)
    /\ \A k \in DOMAIN n : out[k] = IF IsIdentChar(n[k]) THEN n[k] ELSE "_"

\* the name C18 sanitizes: the annotation, else the declared package, else
\* the base name of the file without its extension
DeclaredName(info) ==
    IF info.GoPackage # <<>> THEN info.GoPackage
    ELSE IF info.Package # <<>> THEN info.Package
    ELSE baseName(info.Name)

\* C18: a file whose go_package contains no '/' gets dir(name), ';' and the
\* sanitized n as ComputedPackage, n being the go_package if non-empty, else
\* the declared package if non-empty, else the base name of the file without
\* extension; what follows the ';' has identifier characters only; the
\* warning is printed for the files without go_package and without package,
\* and for no other file.
C18_PlainAnnotation ==
    Located =>
        \A name \in DOMAIN locInfos :
            LET info == locInfos[name]
                d == Dir(info.Name)
                n == DeclaredName(info)
                cpk == info.ComputedPackage
            IN  /\ ~Contains(info.GoPackage, "/") =>
                       /\ Len(cpk) = Len(d) + 1 + Len(n)
                       /\ SubSeq(cpk, 1, Len(d)) = d
                       /\ cpk[Len(d) + 1] = ";"
                       /\ Sanitized(n, SubSeq(cpk, Len(d) + 2, Len(cpk)))
                       /\ \A k \in Len(d) + 2 .. Len(cpk) : IsIdentChar(cpk[k])
                /\ name \in locWarnings <=>
                       (info.GoPackage = <<>> /\ info.Package = <<>>)

C18_Witness ==
    /\ Located
    /\ <<"b">> \in locWarnings
    /\ \E name \in DOMAIN locInfos :
           /\ locInfos[name].Name = <<"a", "/", "a">>
           /\ locInfos[name].GoPackage = <<"a", ";", "a">>
           /\ locInfos[name].ComputedPackage = <<"a", ";", "a", "_", "a">>

\* the infos as they are before ComputeGoLocations
Unlocated(inf) ==
    [name \in DOMAIN inf |-> [inf[name] EXCEPT !.ComputedPackage = <<>>]]

\* the grouping of the files a pkgMap makes
Grouping(pkgMap) == {Range(pkgMap[k].Files) : k \in DOMAIN pkgMap}

\* C19: the ComputedPackage of a file is a function of the file's own name,
\* declared package and go_package; every iteration order of the infos map
\* gives every file the same ComputedPackage, and every iteration order
\* gives the same grouping of the files into packages.
C19_OrderIndependent ==
    /\ Located =>
           /\ \A name \in DOMAIN locInfos :
                  locInfos[name].ComputedPackage =
                      GoLocation([Name |-> locInfos[name].Name,
                                  Package |-> locInfos[name].Package,
                                  GoPackage |-> locInfos[name].GoPackage]).ComputedPackage
           /\ \A iter \in Enumerations(DOMAIN locInfos) :
                  ComputeGoLocations(Unlocated(locInfos), iter).infos = locInfos
    /\ locPc = "collected" =>
           \A iter \in Enumerations(DOMAIN locInfos) :
               Grouping(CollectPackagesFiles(locInfos, iter)) = Grouping(locPkgMap)

C19_Witness ==
    /\ locPc = "collected"
    /\ \E k \in DOMAIN locPkgMap :
           /\ Len(locPkgMap[k].Files) = 2
           /\ locPkgMap[k].Files[1] = <<"b">>
    /\ \E name \in DOMAIN locInfos :
           locInfos[name].GoPackage = <<>> /\ locInfos[<<"b">>].GoPackage # <<>>

\* the packages of pkgMap the file is a member of, once for every place it
\* has in a Files slice
Memberships(pkgMap, name) ==
    {m \in {<<k, i>> : k \in DOMAIN pkgMap, i \in 1 .. Cardinality(DOMAIN locInfos)} :
        m[2] <= Len(pkgMap[m[1]].Files) /\ pkgMap[m[1]].Files[m[2]] = name}

\* C20: after CollectPackages every file of infos is a member of exactly one
\* package, the key of that package is the file's ComputedPackage, no
\* package is empty, and two files are members of the same package if and
\* only if their ComputedPackage is the same.
C20_Partition ==
    locPc = "collected" =>
        /\ \A name \in DOMAIN locInfos :
               /\ Cardinality(Memberships(locPkgMap, name)) = 1
               /\ \A m \in Memberships(locPkgMap, name) :
                      m[1] = locInfos[name].ComputedPackage
        /\ \A k \in DOMAIN locPkgMap :
               /\ locPkgMap[k].Files # <<>>
               /\ locPkgMap[k].ComputedPackage = k
               /\ Range(locPkgMap[k].Files) \subseteq DOMAIN locInfos
        /\ \A n1, n2 \in DOMAIN locInfos :
               (\E k \in DOMAIN locPkgMap :
                    {n1, n2} \subseteq Range(locPkgMap[k].Files))
                   <=> locInfos[n1].ComputedPackage = locInfos[n2].ComputedPackage

C20_Witness ==
    /\ locPc = "collected"
    /\ Cardinality(DOMAIN locInfos) = 2
    /\ \E k \in DOMAIN locPkgMap :
           /\ Len(locPkgMap[k].Files) = 2
           /\ locPkgMap[k].Files[2] = <<"b">>

----------------------------------------------------------------------------
\* Properties of the package graph CollectPackages and tarjan build.

\* the files the members of package k import directly
DirectImports(k) == UNION {Range(infos[f].Deps) : f \in allPackages[k].Files}

NoDuplicates(s) == \A i, j \in DOMAIN s : s[i] = s[j] => i = j

\* C21: the Deps of every package are exactly the files that are no members
\* of the package and that some member imports directly, each listed once.
C21_ExternalDeps ==
    initCalled =>
        \A k \in DOMAIN allPackages :
            /\ Range(allPackages[k].Deps) = DirectImports(k) \ allPackages[k].Files
            /\ NoDuplicates(allPackages[k].Deps)

\* the Deps of every package are the files some member imports directly,
\* members of the package included, each listed once
DepsAreDirectImports ==
    initCalled =>
        \A k \in DOMAIN allPackages :
            /\ Range(allPackages[k].Deps) = DirectImports(k)
            /\ NoDuplicates(allPackages[k].Deps)

\* C22: the successors of a package P in the traversal are exactly the
\* packages Q other than P of which some member of P imports a file; each is
\* listed once, and P is never listed.
C22_Successors ==
    initCalled =>
        \A P \in DOMAIN allPackages :
            LET succ == ImportedPackageComputedNames(allPackages[P])
            IN  /\ Range(succ) = {Q \in DOMAIN allPackages : PkgEdge(P, Q)}
                /\ NoDuplicates(succ)
                /\ P \notin Range(succ)

C22_Witness ==
    /\ initCalled
    /\ \E P \in DOMAIN allPackages :
           /\ Len(allPackages[P].Deps) = 3
           /\ Len(ImportedPackageComputedNames(allPackages[P])) = 1
           /\ \E d \in Range(allPackages[P].Deps) : infos[d].ComputedPackage = P

\* comps are the strongly connected components of the part of the package
\* graph that is reachable from the needed packages
ComponentsAreSCCs(comps) ==
    /\ \A P \in ReachableFromNeeded :
           Cardinality({c \in {<<i, j>> : i \in DOMAIN comps, j \in 1 .. MaxKey} :
                            c[2] <= Len(comps[c[1]]) /\ comps[c[1]][c[2]] = P}) = 1
    /\ \A i \in DOMAIN comps :
           comps[i] # <<>> /\ Range(comps[i]) \subseteq ReachableFromNeeded
    /\ \A P, Q \in ReachableFromNeeded :
           (\E i \in DOMAIN comps : {P, Q} \subseteq Range(comps[i]))
               <=> (Q \in ReachFrom({P}) /\ P \in ReachFrom({Q}))

\* C27: the components every CheckCycles call on an initialized Wrapper
\* leaves in sccs are the strongly connected components of the packages
\* reachable from the needed ones: each reachable package is in exactly one,
\* no other package is in any, and two packages share a component exactly
\* when each is reachable from the other.
C27_ComponentsAreSCCs ==
    (initCalled /\ nChecks >= 1) => ComponentsAreSCCs(sccs)

\* the same for the first call on the Wrapper only
FirstCheckComponentsAreSCCs ==
    (initCalled /\ nChecks >= 1) => ComponentsAreSCCs(firstCheck[1].sccs)

----------------------------------------------------------------------------
\* C24: a run configured with Parallelism < 1 reports that error before any
\* analysis: no descriptor collection, no package grouping and no cycle
\* detection is performed in it, and it does not end with a cycle error.
C24_ConfigErrorsFirst ==
    Parallelism < 1 =>
        /\ ~initCalled
        /\ infos = EmptyMap
        /\ allPackages = EmptyMap
        /\ nChecks = 0
        /\ exitCause # "cycles"

----------------------------------------------------------------------------
\* C28: a worker does not terminate because a generator call failed: when
\* the call returns it either sends the error or takes the next package,
\* after sending it takes the next package, and it exits only when pkgChan
\* is closed and it holds no package.
C28_WorkerKeepsDraining ==
    [][\A w \in Workers :
           /\ (wpc[w] # "exited" /\ wpc'[w] = "exited") =>
                  (pkgChanOpen = "closed" /\ wpc[w] = "recv" /\ wpkg[w] = 0)
           /\ (wpc[w] = "generating" /\ wpc'[w] # "generating") =>
                  wpc'[w] \in {"recv", "send"}
           /\ (wpc[w] = "send" /\ wpc'[w] # "send") => wpc'[w] = "recv"]_vars

C28_Witness ==
    /\ nWorkers = 1
    /\ failed # {}
    /\ errChan # <<>>
    /\ wpc[1] = "generating"
    /\ wpkg[1] \notin failed

----------------------------------------------------------------------------
\* the concurrent phase of Generate: workers are running
ConcurrentPhase == mainPc \in {"select", "close", "wait"}

\* s is t sorted: ascending, with every value as often as in t
SortedCopyOf(s, t) ==
    /\ Len(s) = Len(t)
    /\ \A i, j \in DOMAIN s : i < j => s[i] <= s[j]
    /\ \A x \in Range(s) \cup Range(t) :
           Cardinality({i \in DOMAIN s : s[i] = x}) =
               Cardinality({i \in DOMAIN t : t[i] = x})

\* C30: while the workers run, no step changes the infos, the packages, the
\* configuration of the Wrapper, or the ProtocFlags slice and the array
\* behind it; what changes is the state of pkgChan and errChan (with the wait
\* group that joins the workers), the position of the goroutines and the
\* local variables of Generate.  The argument list of every generator call
\* is the flags followed by the sorted paths of the package's members.
C30_WorkersOnlyRead ==
    /\ [][ConcurrentPhase => UNCHANGED <<cfgVars, wrapVars, flagVars>>]_vars
    /\ [](\A i \in DOMAIN calls :
              \E files \in Enumerations(packages[calls[i].pkg].Files) :
                  /\ SubSeq(calls[i].argv, 1, Len(InitialFlags)) = InitialFlags
                  /\ SortedCopyOf(SubSeq(calls[i].argv, Len(InitialFlags) + 1,
                                         Len(calls[i].argv)),
                                  [j \in DOMAIN files |-> infos[files[j]].FullPath]))
    /\ [](SubSeq(flagsArray, 1, ProtocFlags.len) = InitialFlags)

C30_Witness ==
    /\ ConcurrentPhase
    /\ Len(calls) = 2
    /\ Len(calls[1].argv) = Len(InitialFlags) + 1
    /\ Len(calls[2].argv) = Len(InitialFlags) + 2
    /\ calls[2].argv[Len(InitialFlags) + 1] # calls[2].argv[Len(InitialFlags) + 2]

----------------------------------------------------------------------------
\* some file imports a name for which no file was discovered
UnresolvedImport == \E f \in Files : Undiscovered \in fileDeps[f]

\* C23: when some file imports a name that has no entry in infos, Init
\* returns an error, so that the Wrapper is never initialized, no run gets as
\* far as a panic, and no generator call is made, whatever the caller calls.
C23_UnresolvedImportFails ==
    UnresolvedImport =>
        /\ ~initCalled
        /\ mainPc # "panicked"
        /\ calls = <<>>

----------------------------------------------------------------------------
\* ParseArgs (flags.go).  An argument is a string, a sequence of
\* one-character strings.

MaxArgs == 3         \* longest argument list
MaxValueLen == 1     \* longest flag value

\* flags.go: var noValueFlags
noValueFlags ==
    {<<"-", "h">>,
     <<"-", "-", "h", "e", "l", "p">>,
     <<"-", "-", "d", "i", "s", "a", "l", "l", "o", "w", "_", "s", "e", "r", "v", "i", "c", "e", "s">>,
     <<"-", "-", "i", "n", "c", "l", "u", "d", "e", "_", "i", "m", "p", "o", "r", "t", "s">>,
     <<"-", "-", "i", "n", "c", "l", "u", "d", "e", "_", "s", "o", "u", "r", "c", "e", "_", "i", "n", "f", "o">>,
     <<"-", "-", "v", "e", "r", "s", "i", "o", "n">>,
     <<"-", "-", "d", "e", "c", "o", "d", "e", "_", "r", "a", "w">>,
     <<"-", "-", "p", "r", "i", "n", "t", "_", "f", "r", "e", "e", "_", "f", "i", "e", "l", "d", "_", "n", "u", "m", "b", "e", "r", "s">>}

\* strings.SplitN(s, "=", 2): s, or what is before and after its first "="
SplitN2(s) ==
    LET at == {i \in DOMAIN s : s[i] = "="}
    IN  IF at = {} THEN <<s>>
        ELSE LET i == CHOOSE x \in at : \A y \in at : x <= y
             IN  <<SubSeq(s, 1, i - 1), SubSeq(s, i + 1, Len(s))>>

\* the values of ParseArgs before its loop: customFlags is an empty map, the
\* slices are nil
ParseArgsStart ==
    [customFlags |-> EmptyMap, customFlagsNil |-> FALSE,
     protocFlags |-> <<>>, protos |-> <<>>, importDirs |-> <<>>,
     nextIsFlag |-> FALSE, nextIsCustomFlag |-> FALSE, nextIsImportDir |-> FALSE,
     customName |-> <<>>, err |-> "nil"]

\* "return nil, nil, nil, nil, fmt.Errorf(...)"
ErrorReturn(st, e) ==
    [st EXCEPT !.customFlags = EmptyMap, !.customFlagsNil = TRUE,
               !.protocFlags = <<>>, !.protos = <<>>, !.importDirs = <<>>,
               !.err = e]

\* the map m after "m[k] = v"
MapSet(m, k, v) == [x \in DOMAIN m \cup {k} |-> IF x = k THEN v ELSE m[x]]

\* the body of the loop of ParseArgs for one arg that is not "", "-" or "--"
ParseArg(st, arg, custom) ==
    IF st.nextIsCustomFlag
    THEN [st EXCEPT !.customFlags = MapSet(st.customFlags, st.customName, arg),
                    !.nextIsCustomFlag = FALSE]
    ELSE IF st.nextIsFlag
    THEN [st EXCEPT !.protocFlags = Append(st.protocFlags, arg),
                    !.nextIsFlag = FALSE,
                    !.importDirs = IF st.nextIsImportDir
                                   THEN Append(st.importDirs, arg)
                                   ELSE st.importDirs,
                    !.nextIsImportDir = FALSE]
    ELSE IF arg \in noValueFlags
    THEN [st EXCEPT !.protocFlags = Append(st.protocFlags, arg)]
    ELSE IF arg[1] # "-"
    THEN [st EXCEPT !.protos = Append(st.protos, arg)]
    ELSE IF arg[2] = "-"
    THEN LET parts == SplitN2(SubSeq(arg, 3, Len(arg)))
             name == parts[1]
         IN  IF name \in DOMAIN custom
             THEN IF Len(parts) = 1
                  THEN IF custom[name]
                       THEN [st EXCEPT !.nextIsCustomFlag = TRUE,
                                       !.customName = name]
                       ELSE [st EXCEPT !.customFlags =
                                           MapSet(st.customFlags, name, <<>>)]
                  ELSE [st EXCEPT !.customFlags =
                                      MapSet(st.customFlags, name, parts[2])]
             ELSE [st EXCEPT !.protocFlags = Append(st.protocFlags, arg),
                             !.nextIsFlag = IF Len(parts) = 1 THEN TRUE
                                            ELSE st.nextIsFlag]
    ELSE IF Len(arg) = 2
    THEN [st EXCEPT !.protocFlags = Append(st.protocFlags, arg),
                    !.nextIsFlag = TRUE,
                    !.nextIsImportDir = (arg[2] = "I")]
    ELSE [st EXCEPT !.protocFlags = Append(st.protocFlags, arg),
                    !.importDirs = IF arg[2] = "I"
                                   THEN Append(st.importDirs, SubSeq(arg, 3, Len(arg)))
                                   ELSE st.importDirs]

\* ParseArgs from the i-th arg on, and its end
RECURSIVE ParseArgsFrom(_, _, _, _)
ParseArgsFrom(st, args, i, custom) ==
    IF i > Len(args)
    THEN IF st.nextIsFlag \/ st.nextIsCustomFlag
         THEN ErrorReturn(st, "flag with no value")
         ELSE st
    ELSE IF args[i] = <<>> \/ args[i] = <<"-">> \/ args[i] = <<"-", "-">>
    THEN ErrorReturn(st, "flag not allowed")
    ELSE ParseArgsFrom(ParseArg(st, args[i], custom), args, i + 1, custom)

\* ParseArgs: the five results (and the last value of its local variables)
ParseArgs(args, custom) == ParseArgsFrom(ParseArgsStart, args, 1, custom)


\* the flag names that occur in the arguments
Version == <<"v", "e", "r", "s", "i", "o", "n">>
FlagNames == {<<"a">>, Version}

\* the flag values and file names that occur in the arguments
ValueChoices == Strings({"a"}, MaxValueLen) \ {<<>>}

\* the arguments: the three that are refused, files, one-dash flags with and
\* without a joined value (-I among them), the no-value flag -h, and
\* two-dash flags alone, with "=" and with "=value"
ArgChoices ==
    {<<>>, <<"-">>, <<"-", "-">>, <<"-", "h">>}
        \cup ValueChoices
        \cup {<<"-", c>> \o v : c \in {"I", "a"}, v \in {<<>>} \cup ValueChoices}
        \cup {<<"-", "-">> \o n : n \in FlagNames}
        \cup {<<"-", "-">> \o n \o <<"=">> \o v :
                  n \in FlagNames, v \in {<<>>} \cup ValueChoices}

ArgLists == UNION {[1 .. n -> ArgChoices] : n \in 0 .. MaxArgs}

\* the custom maps: any of the flag names declared, with or without a value
CustomChoices == UNION {[S -> BOOLEAN] : S \in SUBSET FlagNames}

ArgInit ==
    /\ Parallelism = 1
    /\ ProtoFiles = {}
    /\ NoExpand = FALSE
    /\ PrintOnly = FALSE
    /\ allProtos = {}
    /\ infos = EmptyMap
    /\ packages = EmptyMap
    /\ allPackages = EmptyMap
    /\ initCalled = FALSE
    /\ mainPc = "new"
    /\ order = <<>>
    /\ idx = 0
    /\ err = Nil
    /\ retErr = Nil
    /\ nWorkers = 0
    /\ pkgChanOpen = "none"
    /\ errChan = <<>>
    /\ errCap = 0
    /\ wg = 0
    /\ wpc = [w \in Workers |-> "none"]
    /\ wpkg = [w \in Workers |-> 0]
    /\ calls = <<>>
    /\ failed = {}
    /\ completed = {}
    /\ firstSent = Nil
    /\ nRecv = 0
    /\ late = {}
    /\ fileDeps = [f \in Files |-> {}]
    /\ index = EmptyMap
    /\ lowlink = EmptyMap
    /\ onStack = EmptyMap
    /\ sccs = <<>>
    /\ checkErr = Nil
    /\ explanation = <<>>
    /\ nChecks = 0
    /\ firstCheck = <<>>
    /\ exitCode = -1
    /\ exitCause = "none"
    /\ locInfos = EmptyMap
    /\ locWarnings = {}
    /\ locPkgMap = EmptyMap
    /\ locPc = "none"
    /\ ProtocFlags = [len |-> Len(InitialFlags), cap |-> Len(InitialFlags) + 1]
    /\ flagsArray = InitialFlags \o <<EmptyPath>>
    /\ argList \in ArgLists
    /\ customMap \in CustomChoices
    /\ parsed = <<>>
    /\ argPc = "start"


\* the call ParseArgs(args, custom)
ParseArgsCall ==
    /\ argPc = "start"
    /\ parsed' = ParseArgs(argList, customMap)
    /\ argPc' = "parsed"
    /\ UNCHANGED <<cfgVars, wrapVars, schedVars, envVars, tarjanVars, cycleVars,
                   exitVars, locVars, flagVars, argList, customMap>>

ArgNext == ParseArgsCall

ArgSpec == ArgInit /\ [][ArgNext]_vars

----------------------------------------------------------------------------
\* ParseArgs: what each argument is, told from the argument list and the custom
\* map alone (left to right, as a command line is read).

\* arg is spelled with two dashes and a name
TwoDashes(arg) == Len(arg) > 2 /\ arg[1] = "-" /\ arg[2] = "-"

\* arg carries its value after "="
HasEquals(arg) == \E i \in DOMAIN arg : arg[i] = "="

\* the name of a two-dash flag: what follows the dashes, up to the first "="
FlagName(arg) ==
    LET rest == SubSeq(arg, 3, Len(arg))
        n == CHOOSE k \in 0 .. Len(rest) :
                 /\ \A j \in 1 .. k : rest[j] # "="
                 /\ k = Len(rest) \/ rest[k + 1] = "="
    IN  SubSeq(rest, 1, n)

\* arg, not in the place of a value, names a flag of the custom map
IsCustomFlag(arg, custom) == TwoDashes(arg) /\ FlagName(arg) \in DOMAIN custom

\* arg is one of the three arguments that are refused
Refused(arg) == arg \in {<<>>, <<"-">>, <<"-", "-">>}

\* whose value the next argument is, after arg in the given role
Awaits(arg, role, custom) ==
    IF role = "customFlag"
    THEN IF custom[FlagName(arg)] /\ ~HasEquals(arg) THEN "custom" ELSE "none"
    ELSE IF role = "protocFlag"
    THEN IF /\ arg \notin noValueFlags
            /\ \/ TwoDashes(arg) /\ ~HasEquals(arg)
               \/ Len(arg) = 2
         THEN "protoc" ELSE "none"
    ELSE "none"

\* the role of arg when the argument before it awaits (or not) a value
RoleOf(arg, await, custom) ==
    IF Refused(arg) THEN "refused"
    ELSE IF await = "custom" THEN "customValue"
    ELSE IF await = "protoc" THEN "protocValue"
    ELSE IF IsCustomFlag(arg, custom) THEN "customFlag"
    ELSE IF arg[1] # "-" THEN "file"
    ELSE "protocFlag"

\* the roles of the first n arguments
RECURSIVE Roles(_, _, _)
Roles(args, n, custom) ==
    IF n = 0 THEN <<>>
    ELSE LET before == Roles(args, n - 1, custom)
             await == IF n = 1 THEN "none"
                      ELSE Awaits(args[n - 1], before[n - 1], custom)
         IN  Append(before, RoleOf(args[n], await, custom))

ArgRoles == Roles(argList, Len(argList), customMap)

\* what the last argument leaves awaited
AwaitedAtEnd ==
    IF argList = <<>> THEN "none"
    ELSE Awaits(argList[Len(argList)], ArgRoles[Len(argList)], customMap)

\* the elements of s at the positions of keep, in their order
RECURSIVE AtPositions(_, _, _)
AtPositions(s, keep, n) ==
    IF n = 0 THEN <<>>
    ELSE IF n \in keep THEN Append(AtPositions(s, keep, n - 1), s[n])
    ELSE AtPositions(s, keep, n - 1)

PositionsOf(roles) == {i \in DOMAIN argList : ArgRoles[i] \in roles}

\* the -I values: an argument "-Idir" gives dir, the value after "-I" is one
ImportDirAt(i) ==
    IF ArgRoles[i] = "protocValue" THEN argList[i]
    ELSE SubSeq(argList[i], 3, Len(argList[i]))

ImportDirPositions ==
    {i \in DOMAIN argList :
        \/ /\ ArgRoles[i] = "protocFlag"
           /\ ~TwoDashes(argList[i])
           /\ Len(argList[i]) > 2
           /\ argList[i][2] = "I"
        \/ /\ ArgRoles[i] = "protocValue"
           /\ argList[i - 1] = <<"-", "I">>}

ExpectedImportDirs ==
    AtPositions([i \in DOMAIN argList |-> IF i \in ImportDirPositions
                                          THEN ImportDirAt(i) ELSE <<>>],
                ImportDirPositions, Len(argList))

Accepted == argPc = "parsed" /\ parsed.err = "nil"

\* the number of elements of s that are x
Occurrences(s, x) == Cardinality({i \in DOMAIN s : s[i] = x})

\* no custom name is spelled like one of the no-value flags
NoCustomNoValueFlag == \A n \in DOMAIN customMap : <<"-", "-">> \o n \notin noValueFlags

\* C29: in an accepted argument list, every "--name" or "--name=value" whose
\* name is in the custom map (and which is not itself the value of the flag
\* before it) is recorded in customFlags under that name, and protocFlags
\* holds that argument only as often as it is a protoc flag or a protoc value.
C29_CustomFlagsRecorded ==
    Accepted =>
        \A i \in PositionsOf({"customFlag"}) :
            /\ FlagName(argList[i]) \in DOMAIN parsed.customFlags
            /\ Occurrences(parsed.protocFlags, argList[i])
                   = Cardinality({j \in PositionsOf({"protocFlag", "protocValue"}) :
                                      argList[j] = argList[i]})

\* C29 holds for the custom names that no-value flags do not share
CustomFlagsRecordedUnlessNoValue == NoCustomNoValueFlag => C29_CustomFlagsRecorded

\* C25: in an accepted argument list every argument has one role; protocFlags
\* is the protoc flags and their values, protos the input files and
\* importDirs the -I values, each in the order of the arguments, and the
\* custom flags are the names of customFlags.
C25_ArgumentsSplit ==
    Accepted =>
        /\ parsed.protocFlags
               = AtPositions(argList, PositionsOf({"protocFlag", "protocValue"}),
                             Len(argList))
        /\ parsed.protos = AtPositions(argList, PositionsOf({"file"}), Len(argList))
        /\ parsed.importDirs = ExpectedImportDirs
        /\ DOMAIN parsed.customFlags
               = {FlagName(argList[i]) : i \in PositionsOf({"customFlag"})}
        /\ \A i \in PositionsOf({"customValue"}) :
               FlagName(argList[i - 1]) \in DOMAIN parsed.customFlags

\* C25 holds for the custom names that no-value flags do not share
ArgumentsSplitUnlessNoValue == NoCustomNoValueFlag => C25_ArgumentsSplit

\* all four outputs are nil
NoResults ==
    /\ parsed.customFlagsNil
    /\ parsed.protocFlags = <<>>
    /\ parsed.protos = <<>>
    /\ parsed.importDirs = <<>>

\* C26: ParseArgs returns an error and four nil outputs when an argument is
\* "", "-" or "--" and when the last argument is a flag that awaits its
\* value in the next argument; an error never comes with results.
C26_ErrorsWithoutResults ==
    argPc = "parsed" =>
        /\ (\E i \in DOMAIN argList : Refused(argList[i])) => parsed.err # "nil"
        /\ AwaitedAtEnd # "none" => parsed.err # "nil"
        /\ parsed.err # "nil" => NoResults

\* C26 holds for the custom names that no-value flags do not share
ErrorsWithoutResultsUnlessNoValue == NoCustomNoValueFlag => C26_ErrorsWithoutResults

\* an error never comes with results, whatever the custom map
NeverErrorAndResults == (argPc = "parsed" /\ parsed.err # "nil") => NoResults

----------------------------------------------------------------------------
\* Full paths: a Wrapper with or without NoExpand, for proto files with at
\* most one import between them, on which Init and then Generate are called.

PathInit ==
    /\ Parallelism = 1
    /\ ProtoFiles \in ProtoFileChoices
    /\ NoExpand \in BOOLEAN
    /\ PrintOnly = FALSE
    /\ allProtos = {}
    /\ infos = EmptyMap
    /\ packages = EmptyMap
    /\ allPackages = EmptyMap
    /\ initCalled = FALSE
    /\ mainPc = "new"
    /\ order = <<>>
    /\ idx = 0
    /\ err = Nil
    /\ retErr = Nil
    /\ nWorkers = 0
    /\ pkgChanOpen = "none"
    /\ errChan = <<>>
    /\ errCap = 0
    /\ wg = 0
    /\ wpc = [w \in Workers |-> "none"]
    /\ wpkg = [w \in Workers |-> 0]
    /\ calls = <<>>
    /\ failed = {}
    /\ completed = {}
    /\ firstSent = Nil
    /\ nRecv = 0
    /\ late = {}
    /\ fileDeps \in ImportChoicesUpTo(1)
    /\ index = EmptyMap
    /\ lowlink = EmptyMap
    /\ onStack = EmptyMap
    /\ sccs = <<>>
    /\ checkErr = Nil
    /\ explanation = <<>>
    /\ nChecks = 0
    /\ firstCheck = <<>>
    /\ exitCode = -1
    /\ exitCause = "none"
    /\ locInfos = EmptyMap
    /\ locWarnings = {}
    /\ locPkgMap = EmptyMap
    /\ locPc = "none"
    /\ ProtocFlags = [len |-> Len(InitialFlags), cap |-> Len(InitialFlags) + 1]
    /\ flagsArray = InitialFlags \o <<EmptyPath>>
    /\ argList = <<>>
    /\ customMap = EmptyMap
    /\ parsed = <<>>
    /\ argPc = "none"

PathNext ==
    \/ \E fail \in {"none", "config", "collect"}, cp \in PackageChoices :
           WrapperInit(fail, cp)
    \/ GenerateStart
    \/ \E w \in Workers : Dispatch(w)
    \/ RecvErr
    \/ ClosePkgChan
    \/ WaitReturn
    \/ \E w \in Workers, ok \in BOOLEAN : GenerateReturn(w, ok)
    \/ \E w \in Workers : WorkerSend(w)
    \/ \E w \in Workers : WorkerExit(w)

PathSpec == PathInit /\ [][PathNext]_vars

\* a member file of a needed package that is not one of allProtos
ImportOnlyMember ==
    \E k \in DOMAIN packages : \E f \in packages[k].Files : f \notin allProtos

\* C31: every file argument of every generator call is a non-empty path, and
\* after Init every member file of every needed package has its FullPath set.
C31_FullPathsSet ==
    /\ \A i \in DOMAIN calls : \A a \in DOMAIN calls[i].args :
           calls[i].args[a] # EmptyPath
    /\ initCalled =>
           \A k \in DOMAIN packages : \A f \in packages[k].Files :
               infos[f].FullPath # EmptyPath

\* C31 holds for the packages whose members are all among allProtos, as
\* they are when NoExpand is not set
FullPathsSetWhenExpanded == (~NoExpand \/ ~ImportOnlyMember) => C31_FullPathsSet

\* the empty path reaches the generator
EmptyPathPassed ==
    \E i \in DOMAIN calls : \E a \in DOMAIN calls[i].args :
        calls[i].args[a] = EmptyPath

----------------------------------------------------------------------------
\* C32: in every run of Wrapper.Generate pkgChan is closed once, by the step
\* of the submitting goroutine that follows its loop: the close takes the
\* open channel to closed and the submitter to wg.Wait(), a closed channel
\* stays closed, the submitter is never in its select (where it sends) with
\* the channel closed, a submitter past the loop's end has closed it, and no
\* package is sent to or received by a worker from the closed channel.
C32_ClosedOnceAfterSubmitting ==
    /\ [](mainPc = "select" => pkgChanOpen = "open")
    /\ [](mainPc = "close" => pkgChanOpen = "open")
    /\ []((mainPc \in {"wait", "returned"} /\ SchedulerRan) => pkgChanOpen = "closed")
    /\ [][ /\ pkgChanOpen' # pkgChanOpen =>
                  (\/ pkgChanOpen = "none" /\ pkgChanOpen' = "open"
                   \/ /\ pkgChanOpen = "open" /\ pkgChanOpen' = "closed"
                      /\ mainPc = "close" /\ mainPc' = "wait"
                      /\ calls' = calls /\ wpc' = wpc /\ wg' = wg)
           /\ pkgChanOpen = "closed" =>
                  /\ calls' = calls
                  /\ idx' = idx
                  /\ \A w \in Workers :
                        /\ (wpc'[w] = "generating" => wpc[w] = "generating")
                        /\ (wpkg'[w] # wpkg[w] => wpkg'[w] = 0)
         ]_vars

\* Generate has returned after an error ended the submission loop before
\* every package was sent, and every worker has left on the closed channel
C32_Witness ==
    /\ mainPc = "returned"
    /\ pkgChanOpen = "closed"
    /\ nRecv > 0
    /\ idx <= Len(order)
    /\ \A w \in Workers : w <= nWorkers => wpc[w] = "exited"

====
